---- MODULE Spec2Model ----
(***************************************************************************)
(* The bytecode interpreter of interpreter/src/vm.rs (Bytecode::interpret) *)
(* as a state machine: one action per opcode handler of the dispatch loop, *)
(* plus the end of the loop (Finish / end of stream and the final pop).   *)
(*                                                                         *)
(* An i64 is carried as its eight two's-complement bytes, least            *)
(* significant first, because TLC's integers are 32 bits wide: the         *)
(* arithmetic of the handlers is done on those bytes, at the full width.   *)
(* A usize that wrapped below zero is carried as its negative              *)
(* representative (2^64 - k is written -k).                                *)
(***************************************************************************)
EXTENDS Integers, Sequences, FiniteSets, TLC

(***************************************************************************)
(* i64 arithmetic on eight little-endian bytes                             *)
(***************************************************************************)

\* An i64 has eight bytes (read_long reads instructions[ip..ip + 8]).
LongBytes == 8

\* A variable name has four bytes (read_string reads instructions[ip..ip + 4]).
NameBytes == 4

Byte == 0..255

IsNeg(w) == w[LongBytes] >= 128

I64Zero == <<0, 0, 0, 0, 0, 0, 0, 0>>
I64One  == <<1, 0, 0, 0, 0, 0, 0, 0>>
I64MinusOne == <<255, 255, 255, 255, 255, 255, 255, 255>>
\* i64::MIN and i64::MAX
I64Min == <<0, 0, 0, 0, 0, 0, 0, 128>>
I64Max == <<255, 255, 255, 255, 255, 255, 255, 127>>

\* The n low base-256 digits of a natural number, least significant first.
RECURSIVE Digits(_, _)
Digits(n, k) == IF k = 0 THEN <<>> ELSE <<n % 256>> \o Digits(n \div 256, k - 1)

\* The column sums of the operators below are bound through a singleton set,
\* which makes TLC compute each of them once.
RECURSIVE AddCarry(_, _, _, _)
AddCarry(x, y, i, c) ==
    IF i > Len(x) THEN <<>>
    ELSE CHOOSE sum \in { <<s % 256>> \o AddCarry(x, y, i + 1, s \div 256) :
                            s \in {x[i] + y[i] + c} } : TRUE

Complement(w) == [i \in 1..Len(w) |-> 255 - w[i]]

\* b + a, b - a and -a modulo 2^64 (what the machine instruction computes).
WrappingAdd(b, a) == CHOOSE sum \in { AddCarry(x, y, 1, 0) : x \in {b}, y \in {a} } : TRUE
WrappingSub(b, a) ==
    CHOOSE difference \in { AddCarry(x, y, 1, 1) : x \in {b}, y \in {Complement(a)} } : TRUE
WrappingNeg(a)    ==
    CHOOSE negated \in { AddCarry(x, I64Zero, 1, 1) : x \in {Complement(a)} } : TRUE

\* i64::to_le_bytes of a small integer literal, as the test programs spell
\* their immediates.
ToLeBytes(n) == IF n >= 0 THEN Digits(n, LongBytes)
                ELSE WrappingNeg(Digits(0 - n, LongBytes))

AddOverflows(b, a) == IsNeg(b) = IsNeg(a) /\ IsNeg(WrappingAdd(b, a)) # IsNeg(b)
SubOverflows(b, a) == IsNeg(b) # IsNeg(a) /\ IsNeg(WrappingSub(b, a)) # IsNeg(b)

\* The magnitude of an i64 as an unsigned 64-bit number (2^63 for i64::MIN).
Magnitude(w) == IF IsNeg(w) THEN WrappingNeg(w) ELSE w

\* x[i] of a number extended with zero bytes.
Limb(x, i) == IF i <= Len(x) THEN x[i] ELSE 0

RECURSIVE ColumnSum(_, _, _, _)
ColumnSum(x, y, k, i) ==
    IF i > k THEN 0 ELSE Limb(x, i) * Limb(y, k + 1 - i) + ColumnSum(x, y, k, i + 1)

\* The n low bytes of the unsigned product x * y (schoolbook columns).
RECURSIVE MulColumns(_, _, _, _, _)
MulColumns(x, y, k, c, n) ==
    IF k > n THEN <<>>
    ELSE CHOOSE product \in { <<s % 256>> \o MulColumns(x, y, k + 1, s \div 256, n) :
                                s \in {c + ColumnSum(x, y, k, 1)} } : TRUE

WrappingMul(b, a) ==
    CHOOSE product \in { MulColumns(x, y, 1, 0, LongBytes) : x \in {b}, y \in {a} } : TRUE

\* Whether the exact product leaves the i64 range: the 128-bit product of the
\* magnitudes is above 2^63 - 1 (or above 2^63 when the product is negative).
MulOverflows(b, a) ==
    \E x \in {Magnitude(b)}, y \in {Magnitude(a)} :
      \E p \in {MulColumns(x, y, 1, 0, 2 * LongBytes)} :
        LET lo   == SubSeq(p, 1, LongBytes)
            high == \E i \in (LongBytes + 1)..(2 * LongBytes) : p[i] # 0
            neg  == IsNeg(b) # IsNeg(a)
        IN  high \/ (lo[LongBytes] >= 128 /\ ~(neg /\ lo = I64Min))

\* Unsigned x >= y, compared from the most significant byte down.
RECURSIVE UGeFrom(_, _, _)
UGeFrom(x, y, i) ==
    IF i = 0 THEN TRUE
    ELSE IF x[i] # y[i] THEN x[i] > y[i]
    ELSE UGeFrom(x, y, i - 1)

UGe(x, y) == UGeFrom(x, y, Len(x))

\* Signed b < a.
SLt(b, a) == IF IsNeg(b) # IsNeg(a) THEN IsNeg(b) ELSE ~UGe(b, a)

Pow2(k) == CASE k = 0 -> 1 [] k = 1 -> 2 [] k = 2 -> 4 [] k = 3 -> 8
             [] k = 4 -> 16 [] k = 5 -> 32 [] k = 6 -> 64 [] k = 7 -> 128

\* Bit j (0 = least significant) of x.
BitOf(x, j) == (x[(j \div 8) + 1] \div Pow2(j % 8)) % 2

\* 2 * x + bit, modulo 2^64.
RECURSIVE ShiftIn(_, _, _)
ShiftIn(x, i, c) ==
    IF i > Len(x) THEN <<>>
    ELSE CHOOSE shifted \in { <<s % 256>> \o ShiftIn(x, i + 1, s \div 256) :
                                s \in {2 * x[i] + c} } : TRUE

\* Binary long division of unsigned n by d # 0: the k bits from bit j down
\* shifted into the quotient q and the remainder r, <<quotient, remainder>>.
RECURSIVE UDivBits(_, _, _, _, _, _)
UDivBits(n, d, j, k, q, r) ==
    IF k = 0 THEN <<q, r>>
    ELSE CHOOSE result \in
             { UDivBits(n, d, j - 1, k - 1, step[1], step[2]) :
                 step \in { IF UGe(r2, d)
                            THEN <<ShiftIn(q, 1, 1), WrappingSub(r2, d)>>
                            ELSE <<ShiftIn(q, 1, 0), r2>> :
                            r2 \in {ShiftIn(r, 1, BitOf(n, j))} } } : TRUE

\* The division from bit j down to bit 0, a byte of n at a time.
RECURSIVE UDivFrom(_, _, _, _, _)
UDivFrom(n, d, j, q, r) ==
    IF j < 0 THEN <<q, r>>
    ELSE CHOOSE result \in
             { UDivFrom(n, d, j - 8, byte[1], byte[2]) :
                 byte \in {UDivBits(n, d, j, 8, q, r)} } : TRUE

UDivRem(n, d) ==
    CHOOSE result \in { UDivFrom(x, y, 8 * LongBytes - 1, I64Zero, I64Zero) :
                           x \in {n}, y \in {d} } : TRUE

\* x / y of i64 (quotient truncated toward zero), for y # 0 and not MIN / -1.
TruncDiv(x, y) ==
    CHOOSE quotient \in { IF IsNeg(x) # IsNeg(y) THEN WrappingNeg(q) ELSE q :
                             q \in {UDivRem(Magnitude(x), Magnitude(y))[1]} } : TRUE

\* x % y of i64 (remainder with the sign of x), for y # 0 and not MIN % -1.
TruncRem(x, y) ==
    CHOOSE remainder \in { IF IsNeg(x) THEN WrappingNeg(r) ELSE r :
                              r \in {UDivRem(Magnitude(x), Magnitude(y))[2]} } : TRUE

\* `/` and `%` of i64 panic on this pair in every build ("attempt to divide
\* with overflow").
DivOverflows(x, y) == x = I64Min /\ y = I64MinusOne

(***************************************************************************)
(* The opcode enumeration and its one-byte encoding                        *)
(***************************************************************************)

InvalidByte == "InvalidByte"

\* A decoding that numbers Eq before NotEq.
FromU8EqFirst(byte) ==
    CASE byte = 0 -> "LoadVal"      [] byte = 1 -> "WriteVar"
      [] byte = 2 -> "ReadVar"      [] byte = 3 -> "FuncCall"
      [] byte = 4 -> "Add"          [] byte = 5 -> "Sub"
      [] byte = 6 -> "Mul"          [] byte = 7 -> "Div"
      [] byte = 8 -> "Mod"          [] byte = 9 -> "Jump"
      [] byte = 10 -> "JumpBack"    [] byte = 11 -> "JumpIfTrue"
      [] byte = 12 -> "JumpIfFalse" [] byte = 13 -> "Eq"
      [] byte = 14 -> "NotEq"       [] byte = 15 -> "Gt"
      [] byte = 16 -> "Lt"          [] byte = 17 -> "Gte"
      [] byte = 18 -> "Lte"         [] byte = 19 -> "SendChannel"
      [] byte = 20 -> "RecvChannel" [] byte = 21 -> "Spawn"
      [] byte = 22 -> "ReturnIndex" [] byte = 23 -> "Finish"
      [] OTHER -> InvalidByte

\* impl From<u8> for Instruction; InvalidByte stands for the panic of the
\* wildcard arm.
FromU8(byte) ==
    CASE byte = 0 -> "LoadVal"      [] byte = 1 -> "WriteVar"
      [] byte = 2 -> "ReadVar"      [] byte = 3 -> "FuncCall"
      [] byte = 4 -> "Add"          [] byte = 5 -> "Sub"
      [] byte = 6 -> "Mul"          [] byte = 7 -> "Div"
      [] byte = 8 -> "Mod"          [] byte = 9 -> "Jump"
      [] byte = 10 -> "JumpBack"    [] byte = 11 -> "JumpIfTrue"
      [] byte = 12 -> "JumpIfFalse" [] byte = 13 -> "NotEq"
      [] byte = 14 -> "Eq"          [] byte = 15 -> "Gt"
      [] byte = 16 -> "Lt"          [] byte = 17 -> "Gte"
      [] byte = 18 -> "Lte"         [] byte = 19 -> "SendChannel"
      [] byte = 20 -> "RecvChannel" [] byte = 21 -> "Spawn"
      [] byte = 22 -> "ReturnIndex" [] byte = 23 -> "Finish"
      [] OTHER -> InvalidByte

\* impl Into<u8> for Instruction
IntoU8(instruction) ==
    CASE instruction = "LoadVal" -> 0      [] instruction = "WriteVar" -> 1
      [] instruction = "ReadVar" -> 2      [] instruction = "FuncCall" -> 3
      [] instruction = "Add" -> 4          [] instruction = "Sub" -> 5
      [] instruction = "Mul" -> 6          [] instruction = "Div" -> 7
      [] instruction = "Mod" -> 8          [] instruction = "Jump" -> 9
      [] instruction = "JumpBack" -> 10    [] instruction = "JumpIfTrue" -> 11
      [] instruction = "JumpIfFalse" -> 12 [] instruction = "NotEq" -> 13
      [] instruction = "Eq" -> 14          [] instruction = "Gt" -> 15
      [] instruction = "Lt" -> 16          [] instruction = "Gte" -> 17
      [] instruction = "Lte" -> 18         [] instruction = "SendChannel" -> 19
      [] instruction = "RecvChannel" -> 20 [] instruction = "Spawn" -> 21
      [] instruction = "ReturnIndex" -> 22 [] instruction = "Finish" -> 23

(***************************************************************************)
(* The machine                                                             *)
(***************************************************************************)

VARIABLES
    instructions,    \* Bytecode.instructions: the byte stream
    stack,           \* Bytecode.stack: StackValue records, top last
    buried,          \* how many more values lie beneath those, each BuriedValue
    variables,       \* Bytecode.variables: name -> i64
    ip,              \* Bytecode.ip
    overflowChecks,  \* whether the build panics on +, -, * and usize overflow
    queues,          \* the pending values of each mpsc channel
    peers,           \* the endpoints of each channel held outside the stack
    status,          \* Running, or how interpret ended: Ok, Err, Panic, Blocked
    held,            \* the pair in the locals of a RecvChannel that waits in recv()
    retval,          \* the i64 of Ok(result)
    error,           \* the VMError of Err(e), or the panic's message
    lastOp,          \* history: the handler that ran last
    prev,            \* history: stack, buried, ip, variables and queues before it ran
    written,         \* history: name -> the value of the last completed WriteVar
    sentLog,         \* history: per channel, the values that entered it, in order
    receivedLog,     \* history: per channel, the values receivers obtained, in order
    fuel             \* how many more instructions of this run are followed

vars == <<instructions, stack, buried, variables, ip, overflowChecks, queues, peers,
          status, held, retval, error, lastOp, prev, written, sentLog,
          receivedLog, fuel>>

\* const MAX_STACK_SIZE
MAX_STACK_SIZE == 65535

\* StackValue::Int(i) and StackValue::Channel(sender, receiver); a channel
\* endpoint is the identity of its channel.
IntValue(v) == [tag |-> "Int", val |-> v]
ChannelValue(s, r) == [tag |-> "Channel", sender |-> s, receiver |-> r]

\* The machine as a record, so that the helpers of the handlers compose:
\* each takes the machine and returns it changed.
Machine ==
    [stack |-> stack, buried |-> buried, variables |-> variables, ip |-> ip, queues |-> queues,
     status |-> "Running", held |-> <<>>, retval |-> <<>>, error |-> ""]

\* return Err(e), by `?` or by Some(e) at the end of the loop body.
Fail(m, e) == [m EXCEPT !.status = "Err", !.error = e]

\* A panic unwinds out of interpret: nothing is returned.
Panicked(m, msg) == [m EXCEPT !.status = "Panic", !.error = msg]

\* A helper's answer: the machine after it, whether it returned Ok, and the
\* value of the Ok.
Answer(m, val) == [m |-> m, ok |-> TRUE, val |-> val]
NoAnswer(m) == [m |-> m, ok |-> FALSE, val |-> <<>>]

\* usize comparison ip >= n, a wrapped ip (negative here) being above any n.
UsizeGe(i, n) == i < 0 \/ i >= n

\* next_instruction: the byte at ip, ip advanced by one.
next_instruction(m) == Answer([m EXCEPT !.ip = @ + 1], FromU8(instructions[m.ip + 1]))

\* A deep stack is kept as its top values, listed, and the number of values
\* beneath them, which are all this one.
BuriedValue == IntValue(I64One)

\* self.stack.len()
Depth(m) == m.buried + Len(m.stack)

\* A push_val that refuses only above MAX_STACK_SIZE values.
push_val_above_capacity(m, val) ==
    IF Depth(m) <= MAX_STACK_SIZE
    THEN Answer([m EXCEPT !.stack = Append(@, IntValue(val))], <<>>)
    ELSE NoAnswer(Fail(m, "StackOverflow"))

\* push_val
push_val(m, val) ==
    IF Depth(m) < MAX_STACK_SIZE
    THEN Answer([m EXCEPT !.stack = Append(@, IntValue(val))], <<>>)
    ELSE NoAnswer(Fail(m, "StackOverflow"))

Pop(s) == SubSeq(s, 1, Len(s) - 1)
Top(s) == s[Len(s)]

\* self.stack.last() and the machine after self.stack.pop(), of a stack that
\* is not empty.
Last(m) == IF Len(m.stack) > 0 THEN Top(m.stack) ELSE BuriedValue
Shortened(m) ==
    IF Len(m.stack) > 0 THEN [m EXCEPT !.stack = Pop(@)] ELSE [m EXCEPT !.buried = @ - 1]

\* A pop_val that answers 0 on an empty stack.
pop_val_or_zero(m) ==
    IF Depth(m) > 0
    THEN LET popped == Shortened(m)
         IN  IF Last(m).tag = "Int"
             THEN Answer(popped, Last(m).val)
             ELSE NoAnswer(Panicked(popped, "Cannot convert channel to primitive value"))
    ELSE Answer(m, I64Zero)

\* pop_val: the pop happens before into() panics on a Channel.
pop_val(m) ==
    IF Depth(m) > 0
    THEN LET popped == Shortened(m)
         IN  IF Last(m).tag = "Int"
             THEN Answer(popped, Last(m).val)
             ELSE NoAnswer(Panicked(popped, "Cannot convert channel to primitive value"))
    ELSE NoAnswer(Fail(m, "StackUnderflow"))

\* pop_channel
pop_channel(m) ==
    IF Depth(m) > 0
    THEN LET popped == Shortened(m)
         IN  IF Last(m).tag = "Channel"
             THEN Answer(popped, Last(m))
             ELSE NoAnswer(Fail(popped, "StackUnderflow"))
    ELSE NoAnswer(Fail(m, "StackUnderflow"))

\* instructions[from..from + n] of Rust (0-based, end excluded).
Slice(from, n) == SubSeq(instructions, from + 1, from + n)

\* read_string: the slice panics past the end; each byte becomes the char of
\* that code point.
read_string(m) ==
    IF m.ip + NameBytes > Len(instructions)
    THEN NoAnswer(Panicked(m, "range end index out of range"))
    ELSE Answer([m EXCEPT !.ip = @ + NameBytes], Slice(m.ip, NameBytes))

\* read_byte
read_byte(m) ==
    IF m.ip >= Len(instructions)
    THEN NoAnswer(Panicked(m, "index out of bounds"))
    ELSE Answer([m EXCEPT !.ip = @ + 1], instructions[m.ip + 1])

\* read_long: i64::from_le_bytes of the eight bytes; the slice panics past the
\* end, and try_into of an 8-byte slice cannot fail.
read_long(m) ==
    IF m.ip + LongBytes > Len(instructions)
    THEN NoAnswer(Panicked(m, "range end index out of range"))
    ELSE Answer([m EXCEPT !.ip = @ + LongBytes], Slice(m.ip, LongBytes))

\* A 16-bit operand decoded least significant byte first.
read_u16_le(m) ==
    LET lo == read_byte(m)
        hi == read_byte(lo.m)
    IN  IF ~lo.ok THEN lo
        ELSE IF ~hi.ok THEN hi
        ELSE Answer(hi.m, hi.val * 256 + lo.val)

\* ((hi as u16) << 8) | (lo as u16), the two read_byte calls left to right.
read_u16(m) ==
    LET hi == read_byte(m)
        lo == read_byte(hi.m)
    IN  IF ~hi.ok THEN hi
        ELSE IF ~lo.ok THEN lo
        ELSE Answer(lo.m, hi.val * 256 + lo.val)

\* A helper's Err taken by a `match` / `if let` instead of `?`: the machine
\* goes on (a panic is not caught).
Caught(m) == IF m.status = "Err" THEN [m EXCEPT !.status = "Running", !.error = ""] ELSE m

\* HashMap::insert
Insert(map, key, val) ==
    [k \in (DOMAIN map) \cup {key} |-> IF k = key THEN val ELSE map[k]]

\* `bool as i64`
BoolAsI64(p) == IF p THEN I64One ELSE I64Zero

(***************************************************************************)
(* The arms of the match in interpret, each on the machine as               *)
(* next_instruction left it                                                 *)
(***************************************************************************)

\* A LoadVal that decodes its operand most significant byte first.
DoLoadValBigEndian(m) ==
    LET val == read_long(m)
    IN  IF ~val.ok THEN val.m
        ELSE push_val(val.m, [i \in 1..LongBytes |-> val.val[LongBytes + 1 - i]]).m

\* Instruction::LoadVal
DoLoadVal(m) ==
    LET val == read_long(m)
    IN  IF ~val.ok THEN val.m ELSE push_val(val.m, val.val).m

\* A WriteVar that stores the top value and leaves it on the stack.
DoWriteVarKeeping(m) ==
    LET var_name == read_string(m)
        val      == pop_val(var_name.m)
    IN  IF ~var_name.ok THEN var_name.m
        ELSE IF ~val.ok THEN val.m
        ELSE [var_name.m EXCEPT !.variables = Insert(@, var_name.val, val.val)]

\* Instruction::WriteVar
DoWriteVar(m) ==
    LET var_name == read_string(m)
        val      == pop_val(var_name.m)
    IN  IF ~var_name.ok THEN var_name.m
        ELSE IF ~val.ok THEN val.m
        ELSE [val.m EXCEPT !.variables = Insert(@, var_name.val, val.val)]

\* A ReadVar that reads a name never written as 0.
DoReadVarDefault(m) ==
    LET var_name == read_string(m)
    IN  IF ~var_name.ok THEN var_name.m
        ELSE IF var_name.val \in DOMAIN var_name.m.variables
        THEN push_val(var_name.m, var_name.m.variables[var_name.val]).m
        ELSE push_val(var_name.m, I64Zero).m

\* Instruction::ReadVar
DoReadVar(m) ==
    LET var_name == read_string(m)
    IN  IF ~var_name.ok THEN var_name.m
        ELSE IF var_name.val \in DOMAIN var_name.m.variables
        THEN push_val(var_name.m, var_name.m.variables[var_name.val]).m
        ELSE Fail(var_name.m, "StackUnderflow")

\* Arguments pushed last to first.
RECURSIVE ReadArgsReversed(_, _)
ReadArgsReversed(m, n) ==
    IF n = 0 THEN Answer(m, <<>>)
    ELSE LET arg    == read_long(m)
             rest   == ReadArgsReversed(arg.m, n - 1)
             pushed == push_val(rest.m, arg.val)
         IN  IF ~arg.ok THEN arg
             ELSE IF ~rest.ok THEN rest
             ELSE pushed

\* for _ in 0..num_args { read_long, push_val }
RECURSIVE ReadArgs(_, _)
ReadArgs(m, n) ==
    IF n = 0 THEN Answer(m, <<>>)
    ELSE LET arg    == read_long(m)
             pushed == push_val(arg.m, arg.val)
         IN  IF ~arg.ok THEN arg
             ELSE IF ~pushed.ok THEN pushed
             ELSE ReadArgs(pushed.m, n - 1)

\* A FuncCall that gives the callee variables of its own.
DoFuncCallNewScope(m) ==
    LET start_ip == read_u16(m)
        num_args == read_byte(start_ip.m)
        args     == ReadArgs(num_args.m, num_args.val)
    IN  IF ~start_ip.ok THEN start_ip.m
        ELSE IF ~num_args.ok THEN num_args.m
        ELSE IF ~args.ok THEN args.m
        ELSE [args.m EXCEPT !.ip = start_ip.val, !.variables = <<>>]

\* Instruction::FuncCall
DoFuncCall(m) ==
    LET start_ip == read_u16(m)
        num_args == read_byte(start_ip.m)
        args     == ReadArgs(num_args.m, num_args.val)
    IN  IF ~start_ip.ok THEN start_ip.m
        ELSE IF ~num_args.ok THEN num_args.m
        ELSE IF ~args.ok THEN args.m
        ELSE [args.m EXCEPT !.ip = start_ip.val]

\* Instruction::ReturnIndex
DoReturnIndex(m) ==
    LET index == read_u16(m)
    IN  IF ~index.ok THEN index.m ELSE [index.m EXCEPT !.ip = index.val]

\* Instruction::Jump
DoJump(m) ==
    LET offset == read_byte(m)
    IN  IF ~offset.ok THEN offset.m ELSE [offset.m EXCEPT !.ip = @ + offset.val]

\* A JumpBack that counts from the position of its offset byte.
DoJumpBackFromOperand(m) ==
    LET offset == read_byte(m)
    IN  IF ~offset.ok THEN offset.m
        ELSE IF offset.val > m.ip /\ overflowChecks
        THEN Panicked(offset.m, "attempt to subtract with overflow")
        ELSE [offset.m EXCEPT !.ip = m.ip - offset.val]

\* Instruction::JumpBack: `self.ip -= offset` below zero panics in a build with
\* overflow checks and wraps in one without.
DoJumpBack(m) ==
    LET offset == read_byte(m)
    IN  IF ~offset.ok THEN offset.m
        ELSE IF offset.val > offset.m.ip /\ overflowChecks
        THEN Panicked(offset.m, "attempt to subtract with overflow")
        ELSE [offset.m EXCEPT !.ip = @ - offset.val]

\* A JumpIfFalse that jumps on a value other than 0.
DoJumpIfFalseOnTrue(m) ==
    LET offset == read_byte(m)
        val    == pop_val(offset.m)
    IN  IF ~offset.ok THEN offset.m
        ELSE IF ~val.ok THEN val.m
        ELSE IF val.val # I64Zero THEN [val.m EXCEPT !.ip = @ + offset.val]
        ELSE val.m

\* Instruction::JumpIfFalse
DoJumpIfFalse(m) ==
    LET offset == read_byte(m)
        val    == pop_val(offset.m)
    IN  IF ~offset.ok THEN offset.m
        ELSE IF ~val.ok THEN val.m
        ELSE IF val.val = I64Zero THEN [val.m EXCEPT !.ip = @ + offset.val]
        ELSE val.m

\* A JumpIfTrue that takes only 1 for true.
DoJumpIfTrueOnOne(m) ==
    LET offset == read_byte(m)
        val    == pop_val(offset.m)
    IN  IF ~offset.ok THEN offset.m
        ELSE IF ~val.ok THEN val.m
        ELSE IF val.val = I64One THEN [val.m EXCEPT !.ip = @ + offset.val]
        ELSE val.m

\* Instruction::JumpIfTrue
DoJumpIfTrue(m) ==
    LET offset == read_byte(m)
        val    == pop_val(offset.m)
    IN  IF ~offset.ok THEN offset.m
        ELSE IF ~val.ok THEN val.m
        ELSE IF val.val # I64Zero THEN [val.m EXCEPT !.ip = @ + offset.val]
        ELSE val.m

\* `(b $opcode a) as i64`: the value, or the panic of the operator.
\* +, - and * panic on overflow in a build with overflow checks and wrap in
\* one without; % panics on a zero divisor and on MIN % -1 in every build.
Native(opcode, b, a) ==
    CASE opcode = "+" ->
           IF AddOverflows(b, a) /\ overflowChecks
           THEN [panic |-> "attempt to add with overflow", val |-> <<>>]
           ELSE [panic |-> "", val |-> WrappingAdd(b, a)]
      [] opcode = "-" ->
           IF SubOverflows(b, a) /\ overflowChecks
           THEN [panic |-> "attempt to subtract with overflow", val |-> <<>>]
           ELSE [panic |-> "", val |-> WrappingSub(b, a)]
      [] opcode = "*" ->
           IF MulOverflows(b, a) /\ overflowChecks
           THEN [panic |-> "attempt to multiply with overflow", val |-> <<>>]
           ELSE [panic |-> "", val |-> WrappingMul(b, a)]
      [] opcode = "%" ->
           IF a = I64Zero
           THEN [panic |-> "attempt to calculate the remainder with a divisor of zero",
                 val |-> <<>>]
           ELSE IF DivOverflows(b, a)
           THEN [panic |-> "attempt to calculate the remainder with overflow", val |-> <<>>]
           ELSE [panic |-> "", val |-> TruncRem(b, a)]
      [] opcode = "==" -> [panic |-> "", val |-> BoolAsI64(b = a)]
      [] opcode = "!=" -> [panic |-> "", val |-> BoolAsI64(b # a)]
      [] opcode = "<"  -> [panic |-> "", val |-> BoolAsI64(SLt(b, a))]
      [] opcode = ">"  -> [panic |-> "", val |-> BoolAsI64(SLt(a, b))]
      [] opcode = "<=" -> [panic |-> "", val |-> BoolAsI64(~SLt(a, b))]
      [] opcode = ">=" -> [panic |-> "", val |-> BoolAsI64(~SLt(b, a))]

\* An execute_native that puts back what it popped when a pop fails.
execute_native_rolled_back(m, opcode) ==
    LET a == pop_val(m)
        b == pop_val(a.m)
        r == CHOOSE result \in { Native(opcode, y, x) : y \in {b.val}, x \in {a.val} } : TRUE
    IN  IF ~a.ok THEN (IF a.m.status = "Err" THEN Fail(m, "StackUnderflow") ELSE a.m)
        ELSE IF ~b.ok THEN (IF b.m.status = "Err" THEN Fail(m, "StackUnderflow") ELSE b.m)
        ELSE IF r.panic # "" THEN Panicked(b.m, r.panic)
        ELSE [b.m EXCEPT !.stack = Append(@, IntValue(r.val))]

\* macro execute_native: a is popped first (the top), b second; any Err of a
\* pop becomes StackUnderflow; the result is pushed with Vec::push.
execute_native(m, opcode) ==
    LET a == pop_val(m)
        b == pop_val(a.m)
        r == CHOOSE result \in { Native(opcode, y, x) : y \in {b.val}, x \in {a.val} } : TRUE
    IN  IF ~a.ok THEN (IF a.m.status = "Err" THEN Fail(a.m, "StackUnderflow") ELSE a.m)
        ELSE IF ~b.ok THEN (IF b.m.status = "Err" THEN Fail(b.m, "StackUnderflow") ELSE b.m)
        ELSE IF r.panic # "" THEN Panicked(b.m, r.panic)
        ELSE [b.m EXCEPT !.stack = Append(@, IntValue(r.val))]

\* A Lt that compares a with b.
DoLtSwapped(m) == execute_native(m, ">")

DoAdd(m)   == execute_native(m, "+")
DoSub(m)   == execute_native(m, "-")
DoMul(m)   == execute_native(m, "*")
DoMod(m)   == execute_native(m, "%")
DoEq(m)    == execute_native(m, "==")
DoNotEq(m) == execute_native(m, "!=")
DoLt(m)    == execute_native(m, "<")
DoGt(m)    == execute_native(m, ">")
DoLte(m)   == execute_native(m, "<=")
DoGte(m)   == execute_native(m, ">=")

\* A Div that divides the value beneath by the top.
DoDivBeneathByTop(m) ==
    LET a  == pop_val(m)
        b  == pop_val(Caught(a.m))
    IN  IF a.m.status = "Panic" THEN a.m
        ELSE IF b.m.status = "Panic" THEN b.m
        ELSE IF a.ok /\ b.ok
        THEN IF a.val = I64Zero THEN Fail(b.m, "DivisionByZero")
             ELSE IF DivOverflows(b.val, a.val)
             THEN Panicked(b.m, "attempt to divide with overflow")
             ELSE [b.m EXCEPT !.stack = Append(@, IntValue(TruncDiv(b.val, a.val)))]
        ELSE Fail(Caught(b.m), "StackUnderflow")

\* Instruction::Div: both pops of the tuple run, a (the top) first; b == 0 is
\* tested on the second; a / b panics on MIN / -1 in every build.
DoDiv(m) ==
    LET a  == pop_val(m)
        b  == pop_val(Caught(a.m))
    IN  IF a.m.status = "Panic" THEN a.m
        ELSE IF b.m.status = "Panic" THEN b.m
        ELSE IF a.ok /\ b.ok
        THEN IF b.val = I64Zero THEN Fail(b.m, "DivisionByZero")
             ELSE IF DivOverflows(a.val, b.val)
             THEN Panicked(b.m, "attempt to divide with overflow")
             ELSE [b.m EXCEPT !.stack = Append(@, IntValue(TruncDiv(a.val, b.val)))]
        ELSE Fail(Caught(b.m), "StackUnderflow")

\* Whether the Receiver of channel c exists: in the pair just popped, in a
\* Channel left on the stack, or outside the machine.
ReceiverAlive(m, popped, c) ==
    \/ popped.receiver = c
    \/ \E i \in 1..Len(m.stack) : m.stack[i].tag = "Channel" /\ m.stack[i].receiver = c
    \/ peers[c].receiver

\* Whether a Sender of channel c exists.
SenderAlive(m, popped, c) ==
    \/ popped.sender = c
    \/ \E i \in 1..Len(m.stack) : m.stack[i].tag = "Channel" /\ m.stack[i].sender = c
    \/ peers[c].sender

\* A SendChannel that drops the pair when the send fails.
DoSendChannelDropping(m) ==
    LET value   == pop_val(m)
        channel == pop_channel(value.m)
        sender  == channel.val.sender
    IN  IF ~value.ok THEN value.m
        ELSE IF ~channel.ok THEN channel.m
        ELSE IF ReceiverAlive(channel.m, channel.val, sender)
        THEN [channel.m EXCEPT !.queues[sender] = Append(@, value.val),
                               !.stack = Append(@, channel.val)]
        ELSE channel.m

\* Instruction::SendChannel: a failed send is printed and otherwise ignored;
\* the pair is pushed back with Vec::push.
DoSendChannel(m) ==
    LET value   == pop_val(m)
        channel == pop_channel(value.m)
        sender  == channel.val.sender
        sent    == IF ReceiverAlive(channel.m, channel.val, sender)
                   THEN [channel.m EXCEPT !.queues[sender] = Append(@, value.val)]
                   ELSE channel.m
    IN  IF ~value.ok THEN value.m
        ELSE IF ~channel.ok THEN channel.m
        ELSE [sent EXCEPT !.stack = Append(@, channel.val)]

\* A RecvChannel that pushes the value first and the pair above it.
DoRecvChannelPairOnTop(m) ==
    LET channel  == pop_channel(m)
        receiver == channel.val.receiver
        pending  == channel.m.queues[receiver]
        taken    == [channel.m EXCEPT !.queues[receiver] = Tail(@)]
        pushed   == push_val(taken, Head(pending))
    IN  IF ~channel.ok THEN channel.m
        ELSE IF pending # <<>>
        THEN (IF ~pushed.ok THEN pushed.m
              ELSE [pushed.m EXCEPT !.stack = Append(@, channel.val)])
        ELSE IF SenderAlive(channel.m, channel.val, receiver)
        THEN [channel.m EXCEPT !.status = "Blocked", !.held = channel.val]
        ELSE Panicked(channel.m, "called Result::unwrap() on an Err value")

\* A RecvChannel that takes the newest pending value.
DoRecvChannelNewest(m) ==
    LET channel  == pop_channel(m)
        receiver == channel.val.receiver
        pending  == channel.m.queues[receiver]
        restored == [channel.m EXCEPT !.queues[receiver] = Pop(@),
                                      !.stack = Append(@, channel.val)]
    IN  IF ~channel.ok THEN channel.m
        ELSE IF pending # <<>> THEN push_val(restored, Top(pending)).m
        ELSE IF SenderAlive(channel.m, channel.val, receiver)
        THEN [channel.m EXCEPT !.status = "Blocked", !.held = channel.val]
        ELSE Panicked(channel.m, "called Result::unwrap() on an Err value")

\* A RecvChannel that leaves only the value received on the stack.
DoRecvChannelConsuming(m) ==
    LET channel  == pop_channel(m)
        receiver == channel.val.receiver
        pending  == channel.m.queues[receiver]
        taken    == [channel.m EXCEPT !.queues[receiver] = Tail(@)]
    IN  IF ~channel.ok THEN channel.m
        ELSE IF pending # <<>> THEN push_val(taken, Head(pending)).m
        ELSE IF SenderAlive(channel.m, channel.val, receiver)
        THEN [channel.m EXCEPT !.status = "Blocked", !.held = channel.val]
        ELSE Panicked(channel.m, "called Result::unwrap() on an Err value")

\* A RecvChannel that lets go of the Sender it popped before it waits.
DoRecvChannelSenderDropped(m) ==
    LET channel  == pop_channel(m)
        receiver == channel.val.receiver
        pending  == channel.m.queues[receiver]
        restored == [channel.m EXCEPT !.queues[receiver] = Tail(@),
                                      !.stack = Append(@, channel.val)]
        others   == \/ peers[receiver].sender
                    \/ \E i \in 1..Len(channel.m.stack) :
                          /\ channel.m.stack[i].tag = "Channel"
                          /\ channel.m.stack[i].sender = receiver
    IN  IF ~channel.ok THEN channel.m
        ELSE IF pending # <<>> THEN push_val(restored, Head(pending)).m
        ELSE IF others
        THEN [channel.m EXCEPT !.status = "Blocked", !.held = channel.val]
        ELSE Panicked(channel.m, "called Result::unwrap() on an Err value")

\* Instruction::RecvChannel: recv() takes the oldest pending value; on an empty
\* channel it blocks while a Sender exists and fails (unwrap panics) otherwise.
DoRecvChannel(m) ==
    LET channel  == pop_channel(m)
        receiver == channel.val.receiver
        pending  == channel.m.queues[receiver]
        restored == [channel.m EXCEPT !.queues[receiver] = Tail(@),
                                      !.stack = Append(@, channel.val)]
    IN  IF ~channel.ok THEN channel.m
        ELSE IF pending # <<>> THEN push_val(restored, Head(pending)).m
        ELSE IF SenderAlive(channel.m, channel.val, receiver)
        THEN [channel.m EXCEPT !.status = "Blocked", !.held = channel.val]
        ELSE Panicked(channel.m, "called Result::unwrap() on an Err value")

\* Instruction::Spawn
DoSpawn(m) == Panicked(m, "not implemented")

\* A return of the first value pushed instead of the last.
FinishedWithFirst(m) ==
    LET result == pop_val(m)
        first  == IF m.buried > 0 THEN BuriedValue ELSE m.stack[1]
    IN  IF ~result.ok THEN result.m
        ELSE [result.m EXCEPT !.status = "Ok",
                              !.retval = IF first.tag = "Int" THEN first.val ELSE result.val]

\* After the loop: match self.pop_val() { Ok(result) => Ok(result), Err(e) => Err(e) }
Finished(m) ==
    LET result == pop_val(m)
    IN  IF ~result.ok THEN result.m
        ELSE [result.m EXCEPT !.status = "Ok", !.retval = result.val]

(***************************************************************************)
(* Programs and initial machines                                           *)
(***************************************************************************)

\* `Instruction::X.into()` in a byte vector.
Op(instruction) == <<IntoU8(instruction)>>

RECURSIVE Concat(_)
Concat(ss) == IF ss = <<>> THEN <<>> ELSE Head(ss) \o Concat(Tail(ss))

\* The variable names of the tests.
NameX    == <<120, 0, 0, 0>>
NameY    == <<121, 0, 0, 0>>
NameZ    == <<122, 0, 0, 0>>
NameLoop == <<74, 65, 73, 74>>
NameTest == <<116, 101, 115, 116>>
NameTemp == <<116, 101, 109, 112>>
NameXadd == <<120, 97, 100, 100>>
NameYadd == <<121, 97, 100, 100>>

\* test_arithmetic, first machine: x = 1; y = 2; (x + 1) * y
TestArithmetic == Concat(<<
    Op("LoadVal"), ToLeBytes(1), Op("WriteVar"), NameX,
    Op("LoadVal"), ToLeBytes(2), Op("WriteVar"), NameY,
    Op("ReadVar"), NameX, Op("LoadVal"), ToLeBytes(1), Op("Add"),
    Op("ReadVar"), NameY, Op("Mul"), Op("Finish")>>)

\* test_arithmetic, second machine: x = 5; y = 8; z = x * y; push 2, push z, Div
TestArithmetic2 == Concat(<<
    Op("LoadVal"), ToLeBytes(5), Op("WriteVar"), NameX,
    Op("LoadVal"), ToLeBytes(8), Op("WriteVar"), NameY,
    Op("ReadVar"), NameX, Op("ReadVar"), NameY, Op("Mul"), Op("WriteVar"), NameZ,
    Op("LoadVal"), ToLeBytes(2), Op("ReadVar"), NameZ, Op("Div"), Op("Finish")>>)

\* test_zero_division
TestZeroDivision == Concat(<<
    Op("LoadVal"), ToLeBytes(0), Op("LoadVal"), ToLeBytes(1), Op("Div"), Op("Finish")>>)

\* test_loop (bound 10) and test_more_loop (bound 100)
TestLoop(bound) == Concat(<<
    Op("LoadVal"), ToLeBytes(1), Op("LoadVal"), ToLeBytes(5), Op("Add"),
    Op("WriteVar"), NameLoop,
    Op("ReadVar"), NameLoop, Op("LoadVal"), ToLeBytes(bound), Op("Lt"),
    Op("JumpIfFalse"), <<22>>,
    Op("ReadVar"), NameLoop, Op("LoadVal"), ToLeBytes(1), Op("Add"),
    Op("WriteVar"), NameLoop,
    Op("JumpBack"), <<39>>,
    Op("ReadVar"), NameLoop, Op("Finish")>>)

\* test_for_loop
TestForLoop == Concat(<<
    Op("LoadVal"), ToLeBytes(0), Op("WriteVar"), NameTest,
    Op("LoadVal"), ToLeBytes(1), Op("WriteVar"), NameTemp,
    Op("ReadVar"), NameTemp, Op("LoadVal"), ToLeBytes(10), Op("Lte"),
    Op("JumpIfFalse"), <<44>>,
    Op("ReadVar"), NameTemp, Op("ReadVar"), NameTemp, Op("Mul"),
    Op("ReadVar"), NameTest, Op("Add"), Op("WriteVar"), NameTest,
    Op("ReadVar"), NameTemp, Op("LoadVal"), ToLeBytes(1), Op("Add"),
    Op("WriteVar"), NameTemp,
    Op("JumpBack"), <<61>>,
    Op("ReadVar"), NameTest, Op("Finish")>>)

\* test_channel
TestChannel == Concat(<<
    Op("LoadVal"), ToLeBytes(1), Op("SendChannel"), Op("RecvChannel"), Op("Finish")>>)

\* test_func_call: fn_add, fn_call and the return index, whose two bytes the
\* test writes with to_le_bytes.
FnAdd == Concat(<<
    Op("WriteVar"), NameXadd, Op("WriteVar"), NameYadd,
    Op("ReadVar"), NameXadd, Op("ReadVar"), NameYadd, Op("Add")>>)

FnCall == Concat(<<
    Op("FuncCall"), <<0, 0, 2>>, ToLeBytes(522), ToLeBytes(65793)>>)

TestFuncCallReturnIndex == Len(FnAdd) + Len(FnCall) + 3

TestFuncCall == Concat(<<
    FnAdd, Op("ReturnIndex"), Digits(TestFuncCallReturnIndex, 2), FnCall, Op("Finish")>>)

TestFuncCallIp == Len(FnAdd) + 3

\* The channels of a run.
ChannelIds == {1, 2}

\* The longest generated instruction sequence, and how many instructions
\* of a run are followed: MaxSteps for a generated machine (a loop that
\* counts in an i64 runs for 2^64 turns), TestSteps for the tests.
MaxInstr == 3
MaxSteps == 8
TestSteps == 1000

NoPeers == [c \in ChannelIds |-> [sender |-> FALSE, receiver |-> FALSE]]
NoPending == [c \in ChannelIds |-> <<>>]

\* The embedder keeps, of every channel that has an endpoint on the stack, a
\* Sender clone, and the Receiver when that is not on the stack (a Receiver is
\* not Clone).
KeptPeers(stk) ==
    [c \in ChannelIds |->
        LET sends    == \E i \in 1..Len(stk) : stk[i].tag = "Channel" /\ stk[i].sender = c
            receives == \E i \in 1..Len(stk) : stk[i].tag = "Channel" /\ stk[i].receiver = c
        IN  [sender |-> sends \/ receives, receiver |-> sends /\ ~receives]]

\* A machine as its embedder builds it (the fields of Bytecode are pub).
Start(prog, stk, at, prs, pending, steps) ==
    [instructions |-> prog, stack |-> stk, buried |-> 0, ip |-> at, peers |-> prs, queues |-> pending,
     fuel |-> steps]

\* The machines of the tests of vm.rs.
TestMachines ==
    { Start(TestArithmetic, <<>>, 0, NoPeers, NoPending, TestSteps),
      Start(TestArithmetic2, <<>>, 0, NoPeers, NoPending, TestSteps),
      Start(TestZeroDivision, <<>>, 0, NoPeers, NoPending, TestSteps),
      Start(TestLoop(10), <<>>, 0, NoPeers, NoPending, TestSteps),
      Start(TestLoop(100), <<>>, 0, NoPeers, NoPending, TestSteps),
      Start(TestForLoop, <<>>, 0, NoPeers, NoPending, TestSteps),
      Start(TestChannel, <<ChannelValue(1, 1)>>, 0, NoPeers, NoPending, TestSteps),
      Start(TestFuncCall, <<>>, TestFuncCallIp, NoPeers, NoPending, TestSteps) }

\* Operand values: small ones of both signs and the two ends of the range.
OperandValues ==
    { I64Zero, I64One, I64MinusOne, ToLeBytes(2), ToLeBytes(40), ToLeBytes(-7),
      I64Min, I64Max }

\* A matched pair, and the Sender of channel 1 with the Receiver of channel 2.
ChannelValues == { ChannelValue(1, 1), ChannelValue(1, 2) }

StackValues == { IntValue(v) : v \in OperandValues } \cup ChannelValues

\* No Receiver twice on one stack.
ReceiversDistinct(stk) ==
    \A i, j \in 1..Len(stk) :
        (i # j /\ stk[i].tag = "Channel" /\ stk[j].tag = "Channel")
            => stk[i].receiver # stk[j].receiver

OperandStacks ==
    { stk \in {<<>>} \cup { <<a>> : a \in StackValues }
                     \cup { <<b, a>> : b \in StackValues, a \in StackValues } :
        ReceiversDistinct(stk) }

HasChannel(stk) == \E i \in 1..Len(stk) : stk[i].tag = "Channel"

\* What surrounds a stack: nothing kept outside and nothing pending; with a
\* channel on the stack, also the embedder keeping the other endpoints, and a
\* value pending in channel 2.
Surroundings(stk) ==
    IF HasChannel(stk)
    THEN { [peers |-> NoPeers, queues |-> NoPending],
           [peers |-> KeptPeers(stk), queues |-> NoPending],
           [peers |-> NoPeers, queues |-> [NoPending EXCEPT ![2] = <<ToLeBytes(7)>>]] }
    ELSE { [peers |-> NoPeers, queues |-> NoPending] }

JumpOffsets == {0, 1, 22, 255}

OperandLess ==
    { "Add", "Sub", "Mul", "Div", "Mod", "Eq", "NotEq", "Lt", "Gt", "Lte", "Gte",
      "SendChannel", "RecvChannel", "Spawn", "Finish" }

\* One encoded instruction of every kind, bytes that are no opcode, and
\* instructions whose operand is cut short by the end of the stream.
OneInstruction ==
    { Op("LoadVal") \o v : v \in {I64Zero, ToLeBytes(522), I64Min} }
    \cup { Op(o) \o n : o \in {"WriteVar", "ReadVar"}, n \in {NameXadd, NameYadd} }
    \cup { Op("FuncCall") \o <<0, 20, 0>>,
           Op("FuncCall") \o <<1, 1, 1>> \o ToLeBytes(522),
           Op("FuncCall") \o <<0, 0, 2>> \o ToLeBytes(522) \o ToLeBytes(65793) }
    \cup { Op("ReturnIndex") \o t : t \in {<<0, 44>>, <<44, 0>>} }
    \cup { Op(o) \o <<k>> : o \in {"Jump", "JumpBack", "JumpIfTrue", "JumpIfFalse"},
                            k \in JumpOffsets }
    \cup { Op(o) : o \in OperandLess }
    \cup { <<24>>, <<255>> }
    \cup { Op("LoadVal") \o <<1, 0, 0>>, Op("WriteVar") \o <<120, 97>>,
           Op("ReadVar"), Op("Jump"), Op("JumpIfFalse"), Op("ReturnIndex") \o <<0>>,
           Op("FuncCall") \o <<0, 0>>, Op("FuncCall") \o <<0, 0, 1, 5>> }

\* One instruction on every operand stack.
ProbeMachines ==
    UNION { { Start(prog, stk, 0, sur.peers, sur.queues, MaxSteps) : sur \in Surroundings(stk) } :
            <<prog, stk>> \in OneInstruction \X OperandStacks }

\* The instructions of the generated sequences.
SequenceInstructions ==
    { Op("LoadVal") \o I64One,
      Op("WriteVar") \o NameXadd, Op("WriteVar") \o NameYadd, Op("ReadVar") \o NameXadd,
      Op("Jump") \o <<1>>, Op("JumpBack") \o <<2>>,
      Op("JumpIfTrue") \o <<5>>, Op("JumpIfFalse") \o <<5>>,
      Op("FuncCall") \o <<0, 9, 0>>, Op("ReturnIndex") \o <<0, 8>> }

RECURSIVE Sequences(_)
Sequences(n) ==
    IF n = 0 THEN { <<>> }
    ELSE LET shorter == Sequences(n - 1)
         IN  shorter \cup { i \o p : i \in SequenceInstructions, p \in shorter }

SequenceStacks ==
    { <<>>, <<IntValue(ToLeBytes(40)), IntValue(I64Zero), IntValue(ToLeBytes(2))>> }

\* Every sequence of at most MaxInstr instructions, on a few stacks.
SequenceMachines ==
    { Start(prog, stk, 0, NoPeers, NoPending, MaxSteps) :
        prog \in Sequences(MaxInstr), stk \in SequenceStacks }

\* The top of a full stack: one of MAX_STACK_SIZE values, the rest buried.
FullStacks == { <<>>, <<IntValue(ToLeBytes(2))>> }

\* Instructions that push, met with the stack full, and ones that make room.
FullPrograms ==
    { Op("LoadVal") \o I64One,
      Op("ReadVar") \o NameXadd,
      Concat(<<Op("WriteVar"), NameXadd, Op("LoadVal"), I64One, Op("ReadVar"), NameXadd>>),
      Op("FuncCall") \o <<0, 12, 1>> \o ToLeBytes(522),
      Op("Add") \o Op("Finish"),
      Op("JumpIfTrue") \o <<0>> \o Op("FuncCall") \o <<0, 0, 2>> \o ToLeBytes(522)
          \o ToLeBytes(65793),
      Op("JumpIfTrue") \o <<0>> \o Op("Lt") \o Op("WriteVar") \o NameYadd }

\* A full stack with a channel on top, a value waiting in the channel.
FullChannelPrograms ==
    { Op("RecvChannel"),
      Op("RecvChannel") \o Op("RecvChannel"),
      Op("LoadVal") \o I64One \o Op("RecvChannel"),
      Op("SendChannel") \o Op("RecvChannel") \o Op("RecvChannel") }

FullChannelStacks ==
    { <<ChannelValue(1, 1)>>, <<ChannelValue(1, 1), IntValue(ToLeBytes(40))>> }

FullMachines ==
    { [Start(prog, stk, 0, NoPeers, NoPending, MaxSteps)
          EXCEPT !.buried = MAX_STACK_SIZE - Len(stk)] :
        prog \in FullPrograms, stk \in FullStacks }
    \cup
    { [Start(prog, stk, 0, KeptPeers(stk), [NoPending EXCEPT ![1] = <<ToLeBytes(7)>>],
             MaxSteps)
          EXCEPT !.buried = MAX_STACK_SIZE - Len(stk)] :
        prog \in FullChannelPrograms, stk \in FullChannelStacks }

\* Sends and receives in sequence, on stacks that hold a channel.
ChannelInstructions ==
    { Op("LoadVal") \o ToLeBytes(522), Op("SendChannel"), Op("RecvChannel"),
      Op("JumpIfTrue") \o <<0>> }

RECURSIVE ChannelPrograms(_)
ChannelPrograms(n) ==
    IF n = 0 THEN { <<>> }
    ELSE LET shorter == ChannelPrograms(n - 1)
         IN  shorter \cup { i \o p : i \in ChannelInstructions, p \in shorter }

ChannelStacks ==
    { <<ChannelValue(1, 1)>>,
      <<ChannelValue(1, 1), IntValue(ToLeBytes(40))>>,
      <<IntValue(ToLeBytes(2)), ChannelValue(1, 1), IntValue(ToLeBytes(-7))>>,
      <<ChannelValue(1, 2), IntValue(ToLeBytes(40))>> }

\* The embedder keeps the other endpoints; channel 1 holds nothing, or a
\* value.
ChannelSurroundings(stk) ==
    { [peers |-> KeptPeers(stk), queues |-> NoPending],
      [peers |-> KeptPeers(stk),
       queues |-> [NoPending EXCEPT ![1] = <<ToLeBytes(7)>>]] }

ChannelMachines ==
    UNION { { Start(prog, stk, 0, sur.peers, sur.queues, MaxSteps) :
                sur \in ChannelSurroundings(stk) } :
            <<prog, stk>> \in ChannelPrograms(MaxInstr) \X ChannelStacks }

\* Sends and receives with the Sender of a channel whose Receiver was dropped
\* and of which nobody else holds an endpoint.
GonePeerMachines ==
    { Start(prog, <<ChannelValue(1, 2), IntValue(ToLeBytes(40))>>, 0, NoPeers, NoPending,
            MaxSteps) : prog \in ChannelPrograms(MaxInstr) }

\* The loop of test_loop and test_more_loop with other bounds, on both sides
\* of the 6 that the variable starts from.
LoopBounds == {-7, 0, 5, 6, 7, 10, 100}
LoopMachines ==
    { Start(TestLoop(N), <<>>, 0, NoPeers, NoPending, TestSteps) : N \in LoopBounds }

\* The machines followed to their end under fairness: the tests, the loops,
\* and one instruction of every kind on a stack of two Ints.
FairStarts ==
    TestMachines \cup LoopMachines
        \cup { Start(prog, <<IntValue(ToLeBytes(2)), IntValue(ToLeBytes(40))>>, 0,
                      NoPeers, NoPending, MaxSteps) : prog \in OneInstruction }

Starts ==
    TestMachines \cup ProbeMachines \cup SequenceMachines \cup FullMachines
        \cup ChannelMachines \cup GonePeerMachines \cup LoopMachines

\* A machine of a set of starts, as Bytecode::new (or the struct literal of a
\* test) leaves it, in a build with or without overflow checks.
InitOf(starts) ==
    \E s \in starts :
        /\ instructions = s.instructions
        /\ stack = s.stack
        /\ buried = s.buried
        /\ ip = s.ip
        /\ peers = s.peers
        /\ queues = s.queues
        /\ fuel = s.fuel
        /\ variables = <<>>
        /\ overflowChecks \in BOOLEAN
        /\ status = "Running"
        /\ held = <<>>
        /\ sentLog = s.queues
        /\ receivedLog = NoPending
        /\ retval = <<>>
        /\ error = ""
        /\ lastOp = ""
        /\ prev = [stack |-> s.stack, buried |-> s.buried, variables |-> <<>>, ip |-> s.ip,
                   queues |-> s.queues]
        /\ written = <<>>

Init == InitOf(Starts)

(***************************************************************************)
(* Actions: one turn of the loop of interpret each                         *)
(***************************************************************************)

\* The cut of the model: see MaxSteps.
WithinBounds == fuel > 0

\* next_instruction returns Some: ip is inside the stream.
CanFetch == status = "Running" /\ ~UsizeGe(ip, Len(instructions)) /\ WithinBounds

Fetched == next_instruction(Machine)

\* The machine after the handler, computed once.
Become(m) ==
    \E after \in {m} :
        /\ stack' = after.stack
        /\ buried' = after.buried
        /\ variables' = after.variables
        /\ ip' = after.ip
        /\ queues' = after.queues
        /\ status' = after.status
        /\ held' = after.held
        /\ retval' = after.retval
        /\ error' = after.error

\* The history of the channels after a step: a value that a send appended to
\* a channel has entered it; the value on top of the stack after a RecvChannel
\* is the one it obtained from channel c.
Entered ==
    [c \in ChannelIds |->
        IF Len(queues'[c]) > Len(queues[c])
        THEN Append(sentLog[c], queues'[c][Len(queues'[c])])
        ELSE sentLog[c]]
Obtained(c) ==
    LET top == Top(stack')
    IN  [receivedLog EXCEPT ![c] = Append(@, IF top.tag = "Int" THEN top.val ELSE top)]

Record(op) ==
    /\ lastOp' = op
    /\ prev' = [stack |-> stack, buried |-> buried, variables |-> variables, ip |-> ip,
                queues |-> queues]
    /\ written' = IF op = "WriteVar" /\ status' = "Running"
                  THEN Insert(written, Slice(ip + 1, NameBytes), Last(Machine).val)
                  ELSE written
    /\ sentLog' = Entered
    /\ receivedLog' = IF op = "RecvChannel" /\ status' = "Running"
                      THEN Obtained(Last(Machine).receiver)
                      ELSE receivedLog
    /\ fuel' = fuel - 1
    /\ UNCHANGED <<instructions, overflowChecks, peers>>

LoadVal     == CanFetch /\ Fetched.val = "LoadVal" /\ Become(DoLoadVal(Fetched.m)) /\ Record("LoadVal")
WriteVar    == CanFetch /\ Fetched.val = "WriteVar" /\ Become(DoWriteVar(Fetched.m)) /\ Record("WriteVar")
ReadVar     == CanFetch /\ Fetched.val = "ReadVar" /\ Become(DoReadVar(Fetched.m)) /\ Record("ReadVar")
FuncCall    == CanFetch /\ Fetched.val = "FuncCall" /\ Become(DoFuncCall(Fetched.m)) /\ Record("FuncCall")
ReturnIndex == CanFetch /\ Fetched.val = "ReturnIndex" /\ Become(DoReturnIndex(Fetched.m)) /\ Record("ReturnIndex")
Jump        == CanFetch /\ Fetched.val = "Jump" /\ Become(DoJump(Fetched.m)) /\ Record("Jump")
JumpBack    == CanFetch /\ Fetched.val = "JumpBack" /\ Become(DoJumpBack(Fetched.m)) /\ Record("JumpBack")
JumpIfFalse == CanFetch /\ Fetched.val = "JumpIfFalse" /\ Become(DoJumpIfFalse(Fetched.m)) /\ Record("JumpIfFalse")
JumpIfTrue  == CanFetch /\ Fetched.val = "JumpIfTrue" /\ Become(DoJumpIfTrue(Fetched.m)) /\ Record("JumpIfTrue")
Add         == CanFetch /\ Fetched.val = "Add" /\ Become(DoAdd(Fetched.m)) /\ Record("Add")
Sub         == CanFetch /\ Fetched.val = "Sub" /\ Become(DoSub(Fetched.m)) /\ Record("Sub")
Mul         == CanFetch /\ Fetched.val = "Mul" /\ Become(DoMul(Fetched.m)) /\ Record("Mul")
Div         == CanFetch /\ Fetched.val = "Div" /\ Become(DoDiv(Fetched.m)) /\ Record("Div")
Mod         == CanFetch /\ Fetched.val = "Mod" /\ Become(DoMod(Fetched.m)) /\ Record("Mod")
Eq          == CanFetch /\ Fetched.val = "Eq" /\ Become(DoEq(Fetched.m)) /\ Record("Eq")
NotEq       == CanFetch /\ Fetched.val = "NotEq" /\ Become(DoNotEq(Fetched.m)) /\ Record("NotEq")
Lt          == CanFetch /\ Fetched.val = "Lt" /\ Become(DoLt(Fetched.m)) /\ Record("Lt")
Gt          == CanFetch /\ Fetched.val = "Gt" /\ Become(DoGt(Fetched.m)) /\ Record("Gt")
Lte         == CanFetch /\ Fetched.val = "Lte" /\ Become(DoLte(Fetched.m)) /\ Record("Lte")
Gte         == CanFetch /\ Fetched.val = "Gte" /\ Become(DoGte(Fetched.m)) /\ Record("Gte")
SendChannel == CanFetch /\ Fetched.val = "SendChannel" /\ Become(DoSendChannel(Fetched.m)) /\ Record("SendChannel")
RecvChannel == CanFetch /\ Fetched.val = "RecvChannel" /\ Become(DoRecvChannel(Fetched.m)) /\ Record("RecvChannel")
Spawn       == CanFetch /\ Fetched.val = "Spawn" /\ Become(DoSpawn(Fetched.m)) /\ Record("Spawn")

\* Instruction::Finish => break, then the pop after the loop.
Finish      == CanFetch /\ Fetched.val = "Finish" /\ Become(Finished(Fetched.m)) /\ Record("Finish")

\* An end of the stream met only with ip at the length: beyond it the fetch
\* indexes the stream and panics.
EndOfStreamOnlyAtLength ==
    /\ status = "Running" /\ UsizeGe(ip, Len(instructions)) /\ WithinBounds
    /\ Become(IF ip = Len(instructions) THEN Finished(Machine)
              ELSE Panicked(Machine, "index out of bounds"))
    /\ Record("EndOfStream")

\* next_instruction returns None => break, then the pop after the loop.
EndOfStream ==
    /\ status = "Running" /\ UsizeGe(ip, Len(instructions)) /\ WithinBounds
    /\ Become(Finished(Machine)) /\ Record("EndOfStream")

\* Instruction::from panics on a byte above 23, after ip was advanced.
InvalidInstruction ==
    /\ CanFetch /\ Fetched.val = InvalidByte
    /\ Become(Panicked(Fetched.m, "Invalid instruction byte")) /\ Record(InvalidByte)

Next ==
    \/ LoadVal \/ WriteVar \/ ReadVar \/ FuncCall \/ ReturnIndex
    \/ Jump \/ JumpBack \/ JumpIfFalse \/ JumpIfTrue
    \/ Add \/ Sub \/ Mul \/ Div \/ Mod
    \/ Eq \/ NotEq \/ Lt \/ Gt \/ Lte \/ Gte
    \/ SendChannel \/ RecvChannel \/ Spawn
    \/ Finish \/ EndOfStream \/ InvalidInstruction

Spec == Init /\ [][Next]_vars

\* The loop of interpret runs on its thread until it returns, panics or
\* blocks: a turn that can be taken is taken.
FairSpec == InitOf(FairStarts) /\ [][Next]_vars /\ WF_vars(Next)

(***************************************************************************)
(* The machine among other participants: the holders of the endpoints the  *)
(* embedder kept (peers), another instance or the embedder itself, send    *)
(* and receive on the shared channels while the machine runs.              *)
(***************************************************************************)

\* How many values the channels are followed for, and what a peer sends: 7,
\* 9, 11, ... by the place of the value in the channel.
MaxSent == 2
PeerValue(c) == ToLeBytes(7 + 2 * Len(sentLog[c]))

\* The machine is inside interpret, running or waiting in recv().
Live == status \in {"Running", "Blocked"}

\* The Receiver of channel c is held by the machine or by a peer.
ReceiverHeld(c) ==
    \/ \E i \in 1..Len(stack) : stack[i].tag = "Channel" /\ stack[i].receiver = c
    \/ (status = "Blocked" /\ held.receiver = c)
    \/ peers[c].receiver

\* A peer's sender.send(v) on channel c.
PeerSend ==
    \E c \in ChannelIds :
        /\ Live /\ peers[c].sender /\ ReceiverHeld(c)
        /\ Len(sentLog[1]) + Len(sentLog[2]) < MaxSent
        /\ queues' = [queues EXCEPT ![c] = Append(@, PeerValue(c))]
        /\ sentLog' = [sentLog EXCEPT ![c] = Append(@, PeerValue(c))]
        /\ UNCHANGED <<instructions, stack, buried, variables, ip, overflowChecks, peers,
                       status, held, retval, error, lastOp, prev, written, receivedLog,
                       fuel>>

\* A peer's receiver.recv() on channel c, of which it holds the Receiver.
PeerRecv ==
    \E c \in ChannelIds :
        /\ Live /\ peers[c].receiver /\ queues[c] # <<>>
        /\ queues' = [queues EXCEPT ![c] = Tail(@)]
        /\ receivedLog' = [receivedLog EXCEPT ![c] = Append(@, Head(queues[c]))]
        /\ UNCHANGED <<instructions, stack, buried, variables, ip, overflowChecks, peers,
                       status, held, retval, error, lastOp, prev, written, sentLog, fuel>>

\* The recv() of a waiting RecvChannel returns once its channel holds a value:
\* the rest of the handler runs, on the pair it held.
RecvResumed ==
    /\ status = "Blocked" /\ queues[held.receiver] # <<>>
    /\ Become(DoRecvChannel([Machine EXCEPT !.stack = Append(@, held)]))
    /\ receivedLog' = IF status' = "Running" THEN Obtained(held.receiver) ELSE receivedLog
    /\ UNCHANGED <<instructions, overflowChecks, peers, lastOp, prev, written, sentLog, fuel>>

SharedNext == Next \/ PeerSend \/ PeerRecv \/ RecvResumed

SharedSpec == Init /\ [][SharedNext]_vars

(***************************************************************************)
(* Properties                                                              *)
(*                                                                         *)
(* Each is stated on the state after an instruction, against the stack,    *)
(* ip and variables before it (prev) and the handler that ran (lastOp).    *)
(***************************************************************************)

\* A stack: its listed top values over so many buried ones.
Before == [buried |-> prev.buried, stack |-> prev.stack]
Now == [buried |-> buried, stack |-> stack]
DepthOf(s) == s.buried + Len(s.stack)

\* The k-th value from the top of a stack (0 = top).
ValueAt(s, k) == IF k < Len(s.stack) THEN s.stack[Len(s.stack) - k] ELSE BuriedValue

\* Two stacks hold the same values.
Same(s, t) ==
    /\ DepthOf(s) = DepthOf(t)
    /\ \A k \in 0..(Len(s.stack) + Len(t.stack)) :
           k < DepthOf(s) => ValueAt(s, k) = ValueAt(t, k)

\* A stack without its k top values, and with one more.
Without(s, k) ==
    IF k <= Len(s.stack)
    THEN [s EXCEPT !.stack = SubSeq(@, 1, Len(@) - k)]
    ELSE [buried |-> s.buried - (k - Len(s.stack)), stack |-> <<>>]
With(s, v) == [s EXCEPT !.stack = Append(@, v)]

\* The operands of the instruction: the k-th value from the top before it.
Operand(k) == ValueAt(Before, k)

\* Two Int operands were on top of the stack.
TwoInts ==
    DepthOf(Before) >= 2 /\ Operand(0).tag = "Int" /\ Operand(1).tag = "Int"

\* q is n / d truncated toward zero: n = q * d + r exactly, |r| < |d|, and r
\* is zero or has the sign of n.
IsTruncQuotient(n, d, q) ==
    LET p == WrappingMul(q, d)
        r == WrappingSub(n, p)
    IN  /\ ~MulOverflows(q, d)
        /\ ~SubOverflows(n, p)
        /\ ~UGe(Magnitude(r), Magnitude(d))
        /\ (r = I64Zero \/ IsNeg(r) = IsNeg(n))

\* x < y as signed 64-bit numbers: with the sign bit flipped, the bytes of x
\* come before those of y, most significant byte first.
Biased(w) == [i \in 1..LongBytes |-> IF i = LongBytes THEN (w[i] + 128) % 256 ELSE w[i]]

Less(x, y) ==
    \E i \in 1..LongBytes :
        /\ Biased(x)[i] < Biased(y)[i]
        /\ \A j \in (i + 1)..LongBytes : x[j] = y[j]

\* The one-byte jump offset of the instruction and the position after it.
HasOffset == prev.ip + 1 < Len(instructions)
Offset == instructions[prev.ip + 2]
AfterOffset == prev.ip + 2

\* The four-byte name of the instruction.
HasName == prev.ip + 1 + NameBytes <= Len(instructions)
NameRead == SubSeq(instructions, prev.ip + 2, prev.ip + 1 + NameBytes)

C2_ArithmeticWraps ==
    (lastOp \in {"Add", "Sub", "Mul"} /\ TwoInts) =>
        LET x == Operand(1).val
            y == Operand(0).val
        IN  /\ status = "Running"
            /\ Same(Now, With(Without(Before, 2),
                   IntValue(CASE lastOp = "Add" -> WrappingAdd(x, y)
                              [] lastOp = "Sub" -> WrappingSub(x, y)
                              [] lastOp = "Mul" -> WrappingMul(x, y))))

\* C3 (as claimed): Div with a on top and b beneath pops both; b = 0 gives
\* DivisionByZero, and any other b gives a / b truncated toward zero.
C3_DivTopByBeneath ==
    (lastOp = "Div" /\ TwoInts) =>
        LET a == Operand(0).val
            b == Operand(1).val
        IN  IF b = I64Zero
            THEN status = "Err" /\ error = "DivisionByZero"
            ELSE /\ status = "Running"
                 /\ DepthOf(Now) = DepthOf(Before) - 1
                 /\ Same(Without(Now, 1), Without(Before, 2))
                 /\ ValueAt(Now, 0).tag = "Int"
                 /\ IsTruncQuotient(a, b, ValueAt(Now, 0).val)

\* C4 (as claimed): with x pushed and then y, Div gives x / y for y # 0 and
\* DivisionByZero for y = 0, the top value.
C4_DivBeneathByTop ==
    (lastOp = "Div" /\ TwoInts) =>
        LET x == Operand(1).val
            y == Operand(0).val
        IN  IF y = I64Zero
            THEN status = "Err" /\ error = "DivisionByZero"
            ELSE /\ status = "Running"
                 /\ ValueAt(Now, 0).tag = "Int"
                 /\ IsTruncQuotient(x, y, ValueAt(Now, 0).val)

\* C4 (amended): with x pushed and then y, Div gives y / x (the top value
\* divided by the one beneath, truncated toward zero) for x # 0 and
\* DivisionByZero for x = 0, the value beneath the top; i64::MIN / -1 gives
\* no value: the machine panics.
C4_DivTopByBeneathAmended ==
    (lastOp = "Div" /\ TwoInts) =>
        LET x == Operand(1).val
            y == Operand(0).val
        IN  IF x = I64Zero
            THEN status = "Err" /\ error = "DivisionByZero"
            ELSE IF y = I64Min /\ x = I64MinusOne
            THEN status = "Panic"
            ELSE /\ status = "Running"
                 /\ DepthOf(Now) = DepthOf(Before) - 1
                 /\ ValueAt(Now, 0).tag = "Int"
                 /\ IsTruncQuotient(y, x, ValueAt(Now, 0).val)

C4_Witness ==
    /\ lastOp = "Div" /\ TwoInts
    /\ Operand(1).val = ToLeBytes(2) /\ Operand(0).val = ToLeBytes(40)
    /\ status = "Running" /\ stack = <<IntValue(ToLeBytes(20))>>

\* C5 (as claimed): Mod with 0 on top of an Int pushes nothing and ends the
\* run with an error kind returned from interpret.
C5_ModTrapsOnZero ==
    (lastOp = "Mod" /\ TwoInts /\ Operand(0).val = I64Zero) =>
        (status = "Err" /\ DepthOf(Now) <= DepthOf(Before) - 1)

\* Whether the predicate of a relational opcode holds of b and a in that order.
Compares(op, b, a) ==
    CASE op = "Eq"    -> b = a
      [] op = "NotEq" -> b # a
      [] op = "Lt"    -> Less(b, a)
      [] op = "Gt"    -> Less(a, b)
      [] op = "Lte"   -> Less(b, a) \/ b = a
      [] op = "Gte"   -> Less(a, b) \/ b = a

\* C6: a relational opcode pops a (top) and b (beneath) and pushes Int(1)
\* when its predicate holds of b and a in that order, Int(0) otherwise:
\* nothing else on the stack changes, and it is one shorter.
C6_RelationalOrder ==
    (lastOp \in {"Eq", "NotEq", "Lt", "Gt", "Lte", "Gte"} /\ TwoInts) =>
        /\ status = "Running"
        /\ Same(Now, With(Without(Before, 2),
               IntValue(IF Compares(lastOp, Operand(1).val, Operand(0).val)
                        THEN I64One ELSE I64Zero)))

C6_Witness ==
    /\ lastOp = "Lt" /\ TwoInts
    /\ Operand(1).val = ToLeBytes(-7) /\ Operand(0).val = ToLeBytes(2)
    /\ status = "Running" /\ stack = <<IntValue(I64One)>> /\ buried = 0

\* C7 (as claimed): a ReadVar of a name pushes the value of the last completed
\* WriteVar of that name, whatever ran in between.
C7_ReadAfterWrite ==
    (lastOp = "ReadVar" /\ HasName /\ NameRead \in DOMAIN written) =>
        /\ status = "Running"
        /\ Same(Now, With(Before, IntValue(written[NameRead])))

\* C7 (amended): a ReadVar of a name pushes the value of the last completed
\* WriteVar of that name, whatever ran in between, when the stack holds fewer
\* than MAX_STACK_SIZE values; on a full stack it returns StackOverflow and
\* leaves the stack and the variables as they were.
C7_ReadAfterWriteWithRoom ==
    (lastOp = "ReadVar" /\ HasName /\ NameRead \in DOMAIN written) =>
        IF DepthOf(Before) < MAX_STACK_SIZE
        THEN /\ status = "Running"
             /\ Same(Now, With(Before, IntValue(written[NameRead])))
             /\ variables = prev.variables
        ELSE /\ status = "Err" /\ error = "StackOverflow"
             /\ Same(Now, Before) /\ variables = prev.variables

\* WriteVar xadd; FuncCall; ReadVar xadd on the stack 40, 0, 2, the call in
\* between.
C7_Witness ==
    /\ instructions = Concat(<<Op("WriteVar"), NameXadd, Op("FuncCall"), <<0, 9, 0>>,
                               Op("ReadVar"), NameXadd>>)
    /\ lastOp = "ReadVar" /\ status = "Running"
    /\ Len(prev.stack) = 2
    /\ stack = Append(prev.stack, IntValue(ToLeBytes(2)))

\* C8: a ReadVar of a name no WriteVar has stored returns StackUnderflow, and
\* leaves the stack and the variables as they were.
C8_ReadUnwritten ==
    (lastOp = "ReadVar" /\ HasName /\ NameRead \notin DOMAIN written) =>
        /\ status = "Err" /\ error = "StackUnderflow"
        /\ Same(Now, Before)
        /\ variables = prev.variables

C8_Witness ==
    /\ lastOp = "ReadVar" /\ HasName /\ NameRead \notin DOMAIN written
    /\ DOMAIN written # {}
    /\ status = "Err" /\ error = "StackUnderflow" /\ stack # <<>>

\* C9: Jump adds its offset to the position after the offset byte, JumpBack
\* (offset at most that position) subtracts it; the stack and the variables
\* stay as they were.
C9_JumpOffsets ==
    /\ (lastOp = "Jump" /\ HasOffset) =>
          /\ status = "Running" /\ ip = AfterOffset + Offset
          /\ Same(Now, Before) /\ variables = prev.variables
    /\ (lastOp = "JumpBack" /\ HasOffset /\ Offset <= AfterOffset) =>
          /\ status = "Running" /\ ip = AfterOffset - Offset
          /\ Same(Now, Before) /\ variables = prev.variables

C9_Witness ==
    /\ lastOp = "JumpBack" /\ HasOffset /\ Offset = 39 /\ status = "Running"
    /\ ip = AfterOffset - Offset /\ DOMAIN variables # {}

\* C10: JumpIfTrue and JumpIfFalse pop one Int v, taken or not; the offset is
\* added to the position after the offset byte exactly when v # 0
\* (JumpIfTrue) or v = 0 (JumpIfFalse), and the run goes on from there.
C10_ConditionalJumps ==
    (lastOp \in {"JumpIfTrue", "JumpIfFalse"} /\ HasOffset
        /\ DepthOf(Before) >= 1 /\ Operand(0).tag = "Int") =>
        LET v     == Operand(0).val
            taken == IF lastOp = "JumpIfTrue" THEN v # I64Zero ELSE v = I64Zero
        IN  /\ status = "Running"
            /\ Same(Now, Without(Before, 1))
            /\ ip = IF taken THEN AfterOffset + Offset ELSE AfterOffset

C10_Witness ==
    /\ lastOp = "JumpIfTrue" /\ HasOffset /\ Offset = 22
    /\ Len(prev.stack) = 2 /\ Operand(0) = IntValue(I64MinusOne)
    /\ status = "Running" /\ ip = AfterOffset + 22 /\ Len(stack) = 1

\* The operands of a FuncCall: target, count and the eight bytes of each
\* argument, all of them inside the stream.
CallTarget == instructions[prev.ip + 2] * 256 + instructions[prev.ip + 3]
CallCount == instructions[prev.ip + 4]
HasCall ==
    /\ prev.ip + 4 <= Len(instructions)
    /\ prev.ip + 4 + LongBytes * CallCount <= Len(instructions)
CallArgs(n) ==
    [i \in 1..n |->
        IntValue(SubSeq(instructions, prev.ip + 5 + LongBytes * (i - 1),
                        prev.ip + 4 + LongBytes * i))]

\* A stack with the values of a sequence pushed in order.
WithAll(s, vs) == [s EXCEPT !.stack = @ \o vs]

\* C11 (as claimed): FuncCall pushes its n arguments in stream order above
\* what the stack held and sets ip to its big-endian target; the variables
\* stay as they were.
C11_FuncCallPushesArgs ==
    (lastOp = "FuncCall" /\ HasCall) =>
        /\ status = "Running" /\ ip = CallTarget
        /\ Same(Now, WithAll(Before, CallArgs(CallCount)))
        /\ variables = prev.variables

\* C11 (amended): as claimed when the stack has room for the n arguments;
\* otherwise StackOverflow is returned at the first argument that finds the
\* stack full, the arguments before it pushed, ip not set to the target.
C11_FuncCallPushesArgsWithRoom ==
    (lastOp = "FuncCall" /\ HasCall) =>
        LET room == MAX_STACK_SIZE - DepthOf(Before)
        IN  IF CallCount <= room
            THEN /\ status = "Running" /\ ip = CallTarget
                 /\ Same(Now, WithAll(Before, CallArgs(CallCount)))
                 /\ variables = prev.variables
            ELSE /\ status = "Err" /\ error = "StackOverflow"
                 /\ Same(Now, WithAll(Before, CallArgs(room)))
                 /\ ip = prev.ip + 4 + LongBytes * (room + 1)
                 /\ variables = prev.variables

C11_Witness ==
    /\ lastOp = "FuncCall" /\ HasCall /\ CallCount = 2 /\ CallTarget = 0
    /\ status = "Running" /\ ip = 0
    /\ stack = <<IntValue(ToLeBytes(522)), IntValue(ToLeBytes(65793))>>

\* The two-byte operand of a ReturnIndex.
HasIndex == prev.ip + 3 <= Len(instructions)
IndexRead == instructions[prev.ip + 2] * 256 + instructions[prev.ip + 3]

\* C12: ReturnIndex sets ip to its operand, first byte * 256 + second byte,
\* and leaves the stack and the variables as they were.
C12_ReturnIndexBigEndian ==
    (lastOp = "ReturnIndex" /\ HasIndex) =>
        /\ status = "Running" /\ ip = IndexRead
        /\ Same(Now, Before) /\ variables = prev.variables

C12_Witness ==
    /\ lastOp = "ReturnIndex" /\ HasIndex
    /\ instructions[prev.ip + 2] = 44 /\ instructions[prev.ip + 3] = 0
    /\ status = "Running" /\ ip = 11264 /\ stack # <<>>

\* C13: the program of test_func_call, started at the caller's FuncCall,
\* binds xadd to 65793 and yadd to 522 and runs on until interpret returns
\* Ok(66315).
C13_FuncCallScenario ==
    instructions = TestFuncCall =>
        /\ NameXadd \in DOMAIN variables => variables[NameXadd] = ToLeBytes(65793)
        /\ NameYadd \in DOMAIN variables => variables[NameYadd] = ToLeBytes(522)
        /\ status \in {"Running", "Ok"}
        /\ status = "Running" => ENABLED Next
        /\ status = "Ok" => retval = ToLeBytes(66315)

C13_Witness ==
    /\ instructions = TestFuncCall /\ status = "Ok" /\ retval = ToLeBytes(66315)
    /\ DOMAIN variables = {NameXadd, NameYadd}
    /\ prev.ip # TestFuncCallIp

\* C14: a SendChannel on a Channel of one channel that holds no pending value,
\* beneath an Int(v), followed immediately by a RecvChannel, leaves the stack
\* as it was before the send: the same Channel with Int(v) on top of it.
C14_SendThenRecv ==
    [][ ( /\ lastOp = "SendChannel" /\ status = "Running"
          /\ DepthOf(Before) >= 2
          /\ Operand(0).tag = "Int" /\ Operand(1).tag = "Channel"
          /\ Operand(1).sender = Operand(1).receiver
          /\ prev.queues[Operand(1).receiver] = <<>>
          /\ lastOp' = "RecvChannel" )
        => ( /\ status' = "Running"
             /\ Same([buried |-> buried', stack |-> stack'], Before)
             /\ queues' = prev.queues ) ]_vars

C14_Witness ==
    /\ instructions = Concat(<<Op("SendChannel"), Op("RecvChannel")>>)
    /\ lastOp = "RecvChannel" /\ status = "Running"
    /\ stack = <<IntValue(ToLeBytes(2)), ChannelValue(1, 1), IntValue(ToLeBytes(-7))>>
    /\ queues = NoPending

\* One sequence begins another.
IsPrefix(s, t) == Len(s) <= Len(t) /\ SubSeq(t, 1, Len(s)) = s

\* C15: for every channel, at every point, the values receivers have obtained
\* from it, the machine by RecvChannel or another participant, are in order
\* the first of the values that entered it: none out of order, none twice.
C15_ChannelFifo ==
    \A c \in ChannelIds : IsPrefix(receivedLog[c], sentLog[c])

\* The machine received, in order, a value pending at the start and one that
\* a peer sent while it ran.
C15_Witness ==
    /\ lastOp = "RecvChannel" /\ status = "Running"
    /\ \E c \in ChannelIds :
          /\ receivedLog[c] = <<ToLeBytes(7), ToLeBytes(9)>>
          /\ sentLog[c] = receivedLog[c] /\ queues[c] = <<>>
          /\ Top(stack) = IntValue(ToLeBytes(9))

\* The stack was full before the instruction.
Full == DepthOf(Before) = MAX_STACK_SIZE
Overflowed == status = "Err" /\ error = "StackOverflow"

\* The eight-byte operand of a LoadVal is inside the stream.
HasLong == prev.ip + 1 + LongBytes <= Len(instructions)

\* The arguments of a FuncCall up to the first that finds the stack full are
\* inside the stream.
CallRoom == MAX_STACK_SIZE - DepthOf(Before)
HasCallUntilFull ==
    /\ prev.ip + 4 <= Len(instructions)
    /\ CallCount > CallRoom
    /\ prev.ip + 4 + LongBytes * (CallRoom + 1) <= Len(instructions)

\* A RecvChannel that found a Channel on top and a value waiting in it.
Received ==
    /\ DepthOf(Before) >= 1 /\ Operand(0).tag = "Channel"
    /\ prev.queues[Operand(0).receiver] # <<>>

\* C16: the stack never holds more than MAX_STACK_SIZE values; a push at that
\* depth by LoadVal, ReadVar, an argument of FuncCall or the value received by
\* RecvChannel returns StackOverflow with the stack as it was before that
\* push, and StackOverflow is returned only with the stack full.
C16_StackBounded ==
    /\ DepthOf(Now) <= MAX_STACK_SIZE
    /\ Overflowed =>
          /\ DepthOf(Now) = MAX_STACK_SIZE
          /\ lastOp \in {"LoadVal", "ReadVar", "FuncCall", "RecvChannel"}
    /\ (lastOp = "LoadVal" /\ HasLong /\ Full) => (Overflowed /\ Same(Now, Before))
    /\ (lastOp = "ReadVar" /\ HasName /\ NameRead \in DOMAIN prev.variables /\ Full) =>
          (Overflowed /\ Same(Now, Before))
    /\ (lastOp = "FuncCall" /\ HasCallUntilFull) =>
          (Overflowed /\ Same(Now, WithAll(Before, CallArgs(CallRoom))))
    /\ (lastOp = "RecvChannel" /\ Received /\ Full) => (Overflowed /\ Same(Now, Before))

\* A RecvChannel on a full stack: the pair is back on top, the value that was
\* received is dropped.
C16_Witness ==
    /\ lastOp = "RecvChannel" /\ Received /\ Full
    /\ Overflowed /\ DepthOf(Now) = MAX_STACK_SIZE
    /\ Top(stack) = ChannelValue(1, 1) /\ queues[1] = <<>>

\* C17 (as claimed): whenever the next opcode is about to be fetched ip is at
\* most the length of the stream, and the run ends at the end of the stream
\* only with ip equal to that length.
C17_IpWithinStream ==
    /\ status = "Running" => (ip >= 0 /\ ip <= Len(instructions))
    /\ lastOp = "EndOfStream" => prev.ip = Len(instructions)

Underflowed == status = "Err" /\ error = "StackUnderflow"

\* The instructions that take two Int operands.
Binary == {"Add", "Sub", "Mul", "Div", "Mod", "Eq", "NotEq", "Lt", "Gt", "Lte", "Gte"}

\* The stack held nothing, or one Int and nothing beneath it.
Empty == DepthOf(Before) = 0
OneInt == DepthOf(Before) = 1 /\ Operand(0).tag = "Int"

\* C18: the pop that ends the run, at Finish or at the end of the stream,
\* returns StackUnderflow on an empty stack; so does a binary operation on a
\* stack of fewer than two Ints, and WriteVar or a conditional jump on an
\* empty stack.
C18_Underflow ==
    /\ (lastOp \in {"Finish", "EndOfStream"} /\ Empty) => Underflowed
    /\ (lastOp \in Binary /\ (Empty \/ OneInt)) => Underflowed
    /\ (lastOp = "WriteVar" /\ HasName /\ Empty) => Underflowed
    /\ (lastOp \in {"JumpIfTrue", "JumpIfFalse"} /\ HasOffset /\ Empty) => Underflowed

\* A binary operation that found one Int, after an instruction that left it.
C18_Witness ==
    /\ lastOp \in Binary /\ OneInt /\ Underflowed
    /\ prev.ip > 0 /\ DepthOf(Now) = 0

\* An opcode byte was fetched by the last step, and which.
FetchedOne == lastOp \notin {"", "EndOfStream"}
OpcodeByte == instructions[prev.ip + 1]
UnknownReturned == status = "Err" /\ error = "UnknownInstruction"

\* C19 (as claimed): a byte above 23 fetched as an opcode makes interpret
\* return UnknownInstruction.
C19_UnknownOpcode ==
    (FetchedOne /\ OpcodeByte > 23) => UnknownReturned

\* The operand of the last instruction reaches past the end of the stream:
\* the eight bytes of a LoadVal, the four of a name, the offset of a jump, the
\* two target bytes of FuncCall or ReturnIndex, or an argument of a FuncCall
\* that the stack has room for.
CutShort ==
    \/ lastOp = "LoadVal" /\ ~HasLong
    \/ lastOp \in {"WriteVar", "ReadVar"} /\ ~HasName
    \/ lastOp \in {"Jump", "JumpBack", "JumpIfTrue", "JumpIfFalse"} /\ ~HasOffset
    \/ lastOp \in {"FuncCall", "ReturnIndex"} /\ ~HasIndex
    \/ /\ lastOp = "FuncCall" /\ prev.ip + 4 <= Len(instructions)
       /\ prev.ip + 4 + LongBytes * CallCount > Len(instructions)
       /\ DepthOf(Before) + CallCount <= MAX_STACK_SIZE

\* C20 (as claimed): an instruction whose operand reaches past the end of the
\* stream makes interpret return UnknownInstruction.
C20_OperandPastEnd ==
    CutShort => UnknownReturned

UnwrapReturned == status = "Err" /\ error = "UnwrapError"

\* The instruction popped, as the Int it needs, the value that was on top.
PopsInt ==
    \/ lastOp \in Binary \cup {"SendChannel", "Finish", "EndOfStream"}
    \/ lastOp = "WriteVar" /\ HasName
    \/ lastOp \in {"JumpIfTrue", "JumpIfFalse"} /\ HasOffset

\* The instruction popped, as the Channel it needs, the value that was on top
\* (RecvChannel) or the one beneath the Int on top (SendChannel).
ChannelNeededAt(k) ==
    \/ k = 0 /\ lastOp = "RecvChannel"
    \/ k = 1 /\ lastOp = "SendChannel" /\ Operand(0).tag = "Int"

\* C21 (as claimed): an instruction that needs an Int and finds a Channel on
\* top, or needs a Channel and finds an Int, makes interpret return
\* UnwrapError.
C21_VariantMismatch ==
    /\ (PopsInt /\ DepthOf(Before) >= 1 /\ Operand(0).tag = "Channel") => UnwrapReturned
    /\ \A k \in {0, 1} :
          (ChannelNeededAt(k) /\ DepthOf(Before) > k /\ Operand(k).tag = "Int") =>
              UnwrapReturned

\* C22 (as claimed): executing Spawn makes interpret return
\* UnknownInstruction.
C22_SpawnRejected ==
    lastOp = "Spawn" => UnknownReturned

\* The offset of the loop condition in TestLoop, and what the loop returns.
LoopCondition == 24
LoopResult(N) == ToLeBytes(IF N >= 6 THEN N ELSE 6)
InLoop == \E N \in LoopBounds : instructions = TestLoop(N)
LoopBound == CHOOSE N \in LoopBounds : instructions = TestLoop(N)

\* C23: the loop of test_loop with bound N ends with Ok(N) when N >= 6 and
\* Ok(6) otherwise, and the stack is empty whenever the next instruction is
\* the loop condition.
C23_LoopTerminates ==
    /\ [](InLoop /\ status = "Running" /\ ip = LoopCondition => DepthOf(Now) = 0)
    /\ InLoop ~> (InLoop /\ status = "Ok" /\ retval = LoopResult(LoopBound))

\* The loop of test_more_loop at its Finish, the condition met again after
\* the JumpBack.
C23_Witness ==
    /\ instructions = TestLoop(100) /\ lastOp = "Finish"
    /\ status = "Ok" /\ retval = ToLeBytes(100)
    /\ written[NameLoop] = ToLeBytes(100)

\* The opcodes in the order of their bytes, 0 first.
Numbering ==
    << "LoadVal", "WriteVar", "ReadVar", "FuncCall", "Add", "Sub", "Mul", "Div", "Mod",
       "Jump", "JumpBack", "JumpIfTrue", "JumpIfFalse", "NotEq", "Eq", "Gt", "Lt", "Gte",
       "Lte", "SendChannel", "RecvChannel", "Spawn", "ReturnIndex", "Finish" >>

\* C24: byte to opcode and opcode to byte follow the numbering and undo each
\* other on the 24 opcodes and on the bytes 0..23; the opcode that a step
\* decoded encodes to the byte it fetched.
C24_OpcodeRoundTrip ==
    /\ \A i \in 1..Len(Numbering) :
          /\ FromU8(i - 1) = Numbering[i] /\ IntoU8(Numbering[i]) = i - 1
          /\ IntoU8(FromU8(i - 1)) = i - 1
          /\ FromU8(IntoU8(Numbering[i])) = Numbering[i]
    /\ (FetchedOne /\ OpcodeByte < Len(Numbering)) =>
          (lastOp = FromU8(OpcodeByte) /\ IntoU8(lastOp) = OpcodeByte)

\* A step that decoded the last byte of the numbering.
C24_Witness ==
    FetchedOne /\ OpcodeByte = 23 /\ lastOp = "Finish" /\ IntoU8(lastOp) = 23

Errored == status = "Err"

\* The bytes the last instruction had read when it returned its error: the
\* opcode and the operand bytes read up to there (a FuncCall that finds the
\* stack full has read the argument it could not push).
Consumed ==
    CASE lastOp = "EndOfStream" -> 0
      [] lastOp = "LoadVal" -> 1 + LongBytes
      [] lastOp \in {"WriteVar", "ReadVar"} -> 1 + NameBytes
      [] lastOp \in {"JumpIfTrue", "JumpIfFalse"} -> 2
      [] lastOp = "FuncCall" -> 4 + LongBytes * (CallRoom + 1)
      [] OTHER -> 1

\* The stack is the one before the instruction less some of its top values.
PoppedOnly ==
    /\ DepthOf(Now) <= DepthOf(Before)
    /\ Same(Now, Without(Before, DepthOf(Before) - DepthOf(Now)))

\* Div found two Ints, the one beneath (its divisor) zero.
DivByZero == lastOp = "Div" /\ TwoInts /\ Operand(1).val = I64Zero

\* C25: the first error ends the run: no instruction runs after interpret
\* returned Err; ip stays past the bytes the failing instruction had read; the
\* values it had popped stay popped and none is put back. A binary operation
\* on one Int returns StackUnderflow with the stack empty, Div by zero
\* returns DivisionByZero with both operands gone, WriteVar on an empty stack
\* returns StackUnderflow with ip past its name.
C25_FirstErrorEnds ==
    /\ [][~Errored]_vars
    /\ [](Errored => ip = prev.ip + Consumed)
    /\ []((Errored /\ error # "StackOverflow") => PoppedOnly)
    /\ []((lastOp \in Binary /\ OneInt) =>
            (Underflowed /\ DepthOf(Now) = 0 /\ ip = prev.ip + 1))
    /\ [](DivByZero =>
            /\ Errored /\ error = "DivisionByZero"
            /\ Same(Now, Without(Before, 2)) /\ ip = prev.ip + 1)
    /\ []((lastOp = "WriteVar" /\ HasName /\ Empty) =>
            (Underflowed /\ DepthOf(Now) = 0 /\ ip = prev.ip + 1 + NameBytes))

\* test_zero_division: Div returned DivisionByZero after the two LoadVal, the
\* Finish behind it not run.
C25_Witness ==
    /\ instructions = TestZeroDivision /\ DivByZero
    /\ Errored /\ error = "DivisionByZero"
    /\ DepthOf(Now) = 0 /\ ip = Len(instructions) - 1

\* C26 (as claimed): in the program of test_func_call the ReturnIndex of the
\* callee sets ip to the return index the caller computed, 44, the offset of
\* the Finish of the caller, and the run ends by executing that Finish.
C26_ReturnToFinish ==
    /\ (instructions = TestFuncCall /\ lastOp = "ReturnIndex") =>
          (ip = TestFuncCallReturnIndex /\ FromU8(instructions[ip + 1]) = "Finish")
    /\ (instructions = TestFuncCall /\ status = "Ok") => lastOp = "Finish"

\* Nobody holds the Receiver of channel c: no Channel of the stack before the
\* instruction, and no peer.
ReceiverGone(c) ==
    /\ ~peers[c].receiver
    /\ \A k \in 0..(Len(prev.stack) - 1) :
           ~(Operand(k).tag = "Channel" /\ Operand(k).receiver = c)

\* A SendChannel that found an Int on a Channel whose send fails.
SendFailed ==
    /\ lastOp = "SendChannel" /\ DepthOf(Before) >= 2
    /\ Operand(0).tag = "Int" /\ Operand(1).tag = "Channel"
    /\ ReceiverGone(Operand(1).sender)

\* C27: a SendChannel whose send fails because the Receiver is gone consumes
\* the Int and nothing else: the Channel is back on top of the rest of the
\* stack, no channel holds a new value, no error is returned, and the run
\* goes on at the next opcode.
C27_FailedSendIgnored ==
    SendFailed =>
        /\ status = "Running" /\ error = ""
        /\ Same(Now, With(Without(Before, 2), Operand(1)))
        /\ queues = prev.queues /\ variables = prev.variables
        /\ ip = prev.ip + 1

\* A second failed send on the same Channel, after the first one and a
\* LoadVal: the run went on and the pair was there to be used again.
C27_Witness ==
    /\ SendFailed /\ prev.ip = 1 + 1 + LongBytes
    /\ FromU8(instructions[1]) = "SendChannel"
    /\ status = "Running" /\ stack = <<ChannelValue(1, 2)>> /\ queues = NoPending

\* The opcodes without operand bytes.
NoOperand == Binary \cup {"SendChannel", "RecvChannel", "Spawn", "Finish"}

\* The eight operand bytes of a LoadVal, in the order of the stream.
LongRead == SubSeq(instructions, prev.ip + 2, prev.ip + 1 + LongBytes)

\* C28: an instruction whose opcode and operand are in the stream leaves ip
\* advanced by the bytes it read, whatever else it does: 1 for an opcode
\* without operand, 9 for LoadVal, 5 for WriteVar and ReadVar, 2 for the four
\* jumps, whose offset is then applied, if at all, to that position. LoadVal
\* pushes the Int whose little-endian bytes are its operand: byte i of the
\* operand is byte i, of weight 256^(i-1), of the value.
C28_IpAdvance ==
    /\ lastOp \in NoOperand => ip = prev.ip + 1
    /\ (lastOp = "LoadVal" /\ HasLong) => ip = prev.ip + 1 + LongBytes
    /\ (lastOp \in {"WriteVar", "ReadVar"} /\ HasName) => ip = prev.ip + 1 + NameBytes
    /\ (lastOp = "Jump" /\ HasOffset) => ip = (prev.ip + 2) + Offset
    /\ (lastOp = "JumpBack" /\ HasOffset) =>
          ip = IF status = "Running" THEN (prev.ip + 2) - Offset ELSE prev.ip + 2
    /\ (lastOp \in {"JumpIfTrue", "JumpIfFalse"} /\ HasOffset) =>
          ip \in {prev.ip + 2, (prev.ip + 2) + Offset}
    /\ (lastOp = "LoadVal" /\ HasLong /\ ~Full) =>
          /\ status = "Running"
          /\ Same(Now, With(Before, IntValue(LongRead)))
          /\ \A v \in {0, 1, 2, 5, 8, 10, 100, 522, 65793} :
                 LongRead = ToLeBytes(v) => Top(stack) = IntValue(ToLeBytes(v))

\* A LoadVal of 522, bytes 10, 2, 0, ..., after another instruction.
C28_Witness ==
    /\ lastOp = "LoadVal" /\ HasLong /\ prev.ip > 0
    /\ LongRead = <<10, 2, 0, 0, 0, 0, 0, 0>>
    /\ status = "Running" /\ Top(stack) = IntValue(ToLeBytes(522))
    /\ ip = prev.ip + 9

\* The instruction ran to its end: the loop goes on, or interpret returned Ok.
Completed == lastOp # "" /\ status \in {"Running", "Ok"}

\* The Channel at place n of a stack, counted from the bottom: a set of one
\* Channel, or of none (the buried values are Ints).
ChannelAt(s, n) ==
    IF n > s.buried /\ n <= DepthOf(s) /\ s.stack[n - s.buried].tag = "Channel"
    THEN { s.stack[n - s.buried] }
    ELSE {}

\* The places of the values listed before or after the instruction.
ListedPlaces ==
    LET low  == IF buried < prev.buried THEN buried ELSE prev.buried
        high == IF DepthOf(Now) > DepthOf(Before) THEN DepthOf(Now) ELSE DepthOf(Before)
    IN  (low + 1)..high

\* C29: an instruction that completes leaves every Channel of the stack where
\* it was, the same pair of endpoints at the same place from the bottom, and
\* no Channel anywhere else: SendChannel leaves the pair it popped on top, in
\* the place it had beneath the Int; RecvChannel leaves the pair it popped in
\* its place, beneath the value received.
C29_ChannelsPreserved ==
    Completed =>
        /\ \A n \in ListedPlaces : ChannelAt(Now, n) = ChannelAt(Before, n)
        /\ lastOp = "SendChannel" =>
              /\ DepthOf(Now) = DepthOf(Before) - 1
              /\ ValueAt(Now, 0) = Operand(1) /\ Operand(1).tag = "Channel"
        /\ lastOp = "RecvChannel" =>
              /\ DepthOf(Now) = DepthOf(Before) + 1
              /\ ValueAt(Now, 1) = Operand(0) /\ Operand(0).tag = "Channel"
              /\ ValueAt(Now, 0).tag = "Int"

\* A RecvChannel on the upper of two Channels: both are where they were, the
\* value above them.
C29_Witness ==
    /\ lastOp = "RecvChannel" /\ Completed
    /\ prev.stack = <<ChannelValue(1, 1), ChannelValue(1, 2)>>
    /\ stack = <<ChannelValue(1, 1), ChannelValue(1, 2), IntValue(ToLeBytes(7))>>

\* The machine is about to fetch with, on top of its stack, both endpoints of
\* one channel that holds no value.
OwnPairOnTop ==
    /\ status = "Running" /\ DepthOf(Now) >= 1
    /\ ValueAt(Now, 0).tag = "Channel"
    /\ ValueAt(Now, 0).sender = ValueAt(Now, 0).receiver
    /\ queues[ValueAt(Now, 0).receiver] = <<>>

\* The machine waits in the recv() of a RecvChannel on both endpoints of one
\* channel.
WaitsOnOwn == status = "Blocked" /\ held.sender = held.receiver

\* C30: a RecvChannel on a Channel of one channel that holds no value waits:
\* it neither returns nor panics, whoever else holds a Sender or none, the
\* Sender it popped being alive in its locals. While no value enters that
\* channel the machine stays as it is, waiting, whatever the other
\* participants do: no error, no result, no later instruction.
C30_RecvWaitsForever ==
    /\ [][ (OwnPairOnTop /\ lastOp' = "RecvChannel" /\ fuel' = fuel - 1) =>
             ( /\ status' = "Blocked" /\ held' = ValueAt(Now, 0)
               /\ ip' = ip + 1 /\ error' = "" /\ retval' = <<>> ) ]_vars
    /\ [][ (WaitsOnOwn /\ queues[held.receiver] = <<>> /\ queues'[held.receiver] = <<>>) =>
             ( /\ status' = "Blocked" /\ held' = held
               /\ stack' = stack /\ buried' = buried /\ ip' = ip
               /\ error' = "" /\ retval' = <<>> /\ lastOp' = lastOp ) ]_vars

\* The machine received the value that was pending, dropped it, and waits in
\* a second RecvChannel on the same, now empty, channel.
C30_Witness ==
    /\ WaitsOnOwn /\ held = ChannelValue(1, 1) /\ lastOp = "RecvChannel"
    /\ queues[1] = <<>> /\ receivedLog[1] = <<ToLeBytes(7)>>
    /\ stack = <<>> /\ ip = 4

\* The last instruction was a control transfer whose operand is in the stream
\* and whose operands are on the stack, and the position it transfers to.
Transferred ==
    \/ lastOp = "Jump" /\ HasOffset
    \/ /\ lastOp \in {"JumpIfTrue", "JumpIfFalse"} /\ HasOffset
       /\ DepthOf(Before) >= 1 /\ Operand(0).tag = "Int"
       /\ (lastOp = "JumpIfTrue") = (Operand(0).val # I64Zero)
    \/ lastOp = "FuncCall" /\ HasCall /\ DepthOf(Before) + CallCount <= MAX_STACK_SIZE
    \/ lastOp = "ReturnIndex" /\ HasIndex
TransferTarget ==
    CASE lastOp \in {"Jump", "JumpIfTrue", "JumpIfFalse"} -> AfterOffset + Offset
      [] lastOp = "FuncCall" -> CallTarget
      [] lastOp = "ReturnIndex" -> IndexRead

\* The transfer went to the end of the stream or beyond it.
TransferredPastEnd == Transferred /\ TransferTarget >= Len(instructions)

\* C31: a Jump, a taken conditional jump, a FuncCall or a ReturnIndex whose
\* target is at or beyond the end of the stream is no error: ip takes the
\* target and the loop goes on. The next turn of the loop is then the end of
\* the stream: it reads no byte (ip stays), and with an Int on top of the
\* stack it pops it and interpret returns Ok of it.
C31_TransferPastEnd ==
    /\ [](TransferredPastEnd =>
            (status = "Running" /\ error = "" /\ ip = TransferTarget))
    /\ [][ (TransferredPastEnd /\ status = "Running") =>
             ( /\ lastOp' = "EndOfStream" /\ ip' = ip
               /\ status' \in {"Ok", "Err", "Panic"}
               /\ (DepthOf(Now) >= 1 /\ ValueAt(Now, 0).tag = "Int") =>
                     /\ status' = "Ok" /\ retval' = ValueAt(Now, 0).val
                     /\ Same([buried |-> buried', stack |-> stack'], Without(Now, 1)) ) ]_vars
    /\ [](lastOp = "EndOfStream" => (UsizeGe(prev.ip, Len(instructions)) /\ ip = prev.ip))

\* test_func_call: ReturnIndex left ip at 11264 in a stream of 45 bytes, and
\* the run ended there with Ok(522 + 65793).
C31_Witness ==
    /\ instructions = TestFuncCall /\ lastOp = "EndOfStream"
    /\ prev.ip = 11264 /\ ip = 11264 /\ prev.ip > Len(instructions)
    /\ status = "Ok" /\ retval = ToLeBytes(66315) /\ stack = <<>>

====
